---- MODULE Spec2Model ----
(***************************************************************************)
(* Compliance Master: the document pipeline of main.py and the response   *)
(* recovery of llm_service.py.                                             *)
(*                                                                         *)
(* A text (an LLM response, a template, a document) is a sequence of       *)
(* lexemes.  The lexemes of JSON are "{" "}" "[" "]" "," ":" , the         *)
(* literals null / true / false, number lexemes and string lexemes; every  *)
(* other lexeme is prose.  str.find, str.rfind, slicing, re.search and     *)
(* json.loads are computed on these sequences.                             *)
(*                                                                         *)
(* A Python value is a tagged record:                                      *)
(*   [t |-> "null"]  [t |-> "bool", b]  [t |-> "num", n]  [t |-> "str", s] *)
(*   [t |-> "list", items]  [t |-> "obj", keys, vals]                      *)
(* Numbers are held in hundredths (0.95 is 95).                            *)
(***************************************************************************)
EXTENDS Integers, Sequences, FiniteSets, TLC

VARIABLES
    pc,        \* position of the request being served
    endpoint,  \* operation the request addresses
    request,   \* the request's inputs
    llm,       \* outcome of the last LLM call of the request
    llmCalls,  \* number of LLM calls issued for the request
    svc,       \* outcome of the last GraniteLLMService method call
    work,      \* the handler's locals that outlive one pipeline step
    http,      \* the HTTP response of the request
    steps,     \* pipeline steps the request has started, in order
    parser,    \* outcome of the request's document_parser.parse_document call
    previous,  \* history: LLM answer and response of the request served before
    sent,      \* history: the prose and the object an LLM answer was made of
    parsed,    \* what the two recoveries made of the LLM answer
    clock,     \* datetime.now(): the day and the second of that day
    prompt,    \* the prompt the request built for the LLM
    earlier,   \* history: the prompt built by the request served before
    catalog,   \* quality_rules.QUALITY_RULES
    llm_service, \* the configuration of the LLM client
    rules_text, \* the rules text the request's grading call was given
    SAVE_LOCAL_COPIES, \* whether responses are archived on the local disk
    archive,   \* the archive files: path -> the archiving call whose payload it holds
    written,   \* history: the path each archiving call wrote, in order
    temp_file  \* the temporary file the request made for its upload

vars == <<pc, endpoint, request, llm, llmCalls, svc, work, http,
          steps, parser, previous, sent, parsed, clock, prompt, earlier,
          catalog, llm_service, rules_text, SAVE_LOCAL_COPIES, archive, written,
          temp_file>>

-----------------------------------------------------------------------------
(* Bounds *)

MaxViolations == 3
\* Clock advances the model follows.
MaxTicks == 2
\* Archiving calls the model follows.
MaxArchived == 2
MaxShortText == 3

-----------------------------------------------------------------------------
(* Python values *)

VNull == [t |-> "null"]
VBool(b) == [t |-> "bool", b |-> b]
VNum(n) == [t |-> "num", n |-> n]
VStr(s) == [t |-> "str", s |-> s]
VList(items) == [t |-> "list", items |-> items]
VObj(keys, vals) == [t |-> "obj", keys |-> keys, vals |-> vals]
EmptyDict == VObj(<<>>, <<>>)

\* Lexemes that are JSON number literals, with their value in hundredths.
NumberLexemes == {"0", "0.95", "1.7", "5"}
NumberValue(tok) ==
    CASE tok = "0" -> 0
      [] tok = "0.95" -> 95
      [] tok = "1.7" -> 170
      [] tok = "5" -> 500

\* Lexemes that are JSON string literals (the token is the string's content).
StringLexemes ==
    {"document_title", "department", "value", "confidence",
     "Quality Manual", "Not found", "",
     "violations", "recommendations", "rule_id", "rule_name", "severity",
     "description", "violation_details", "passed",
     "error", "warning", "info", "critical", "QR001", "QR002", "QR003",
     "QR004", "Rule Name", "What this rule checks", "Specific details",
     "Specific recommendation 1", "maybe", "overall_score", "quality_grade",
     "A"}

Fail == [ok |-> FALSE, val |-> VNull, nxt |-> 0]
Ok(v, n) == [ok |-> TRUE, val |-> v, nxt |-> n]

RECURSIVE ParseValue(_, _), ParseItems(_, _, _), ParseMembers(_, _, _, _)

\* json.loads' scanner: one JSON value starting at position i of s.
ParseValue(s, i) ==
    IF i > Len(s) THEN Fail
    ELSE LET tok == s[i] IN
         CASE tok = "null" -> Ok(VNull, i + 1)
           [] tok = "true" -> Ok(VBool(TRUE), i + 1)
           [] tok = "false" -> Ok(VBool(FALSE), i + 1)
           [] tok \in NumberLexemes -> Ok(VNum(NumberValue(tok)), i + 1)
           [] tok \in StringLexemes -> Ok(VStr(tok), i + 1)
           [] tok = "[" ->
                IF i + 1 <= Len(s) /\ s[i + 1] = "]"
                THEN Ok(VList(<<>>), i + 2)
                ELSE ParseItems(s, i + 1, <<>>)
           [] tok = "{" ->
                IF i + 1 <= Len(s) /\ s[i + 1] = "}"
                THEN Ok(EmptyDict, i + 2)
                ELSE ParseMembers(s, i + 1, <<>>, <<>>)
           [] OTHER -> Fail

ParseItems(s, i, acc) ==
    LET r == ParseValue(s, i) IN
    IF ~r.ok \/ r.nxt > Len(s) THEN Fail
    ELSE IF s[r.nxt] = "," THEN ParseItems(s, r.nxt + 1, Append(acc, r.val))
    ELSE IF s[r.nxt] = "]" THEN Ok(VList(Append(acc, r.val)), r.nxt + 1)
    ELSE Fail

ParseMembers(s, i, keys, vals) ==
    IF i + 1 > Len(s) \/ s[i] \notin StringLexemes \/ s[i + 1] # ":" THEN Fail
    ELSE LET r == ParseValue(s, i + 2) IN
         IF ~r.ok \/ r.nxt > Len(s) THEN Fail
         ELSE IF s[r.nxt] = ","
              THEN ParseMembers(s, r.nxt + 1, Append(keys, s[i]), Append(vals, r.val))
         ELSE IF s[r.nxt] = "}"
              THEN Ok(VObj(Append(keys, s[i]), Append(vals, r.val)), r.nxt + 1)
         ELSE Fail

\* json.loads(s): the value, or JSONDecodeError (ok = FALSE) when s is not
\* exactly one JSON value.
json_loads(s) ==
    LET r == ParseValue(s, 1) IN
    IF r.ok /\ r.nxt = Len(s) + 1 THEN [ok |-> TRUE, val |-> r.val]
    ELSE [ok |-> FALSE, val |-> VNull]

\* str.find(ch): 0-based index of the first occurrence, -1 when absent.
find(s, ch) ==
    IF \E i \in 1..Len(s) : s[i] = ch
    THEN (CHOOSE i \in 1..Len(s) : s[i] = ch /\ \A j \in 1..(i - 1) : s[j] # ch) - 1
    ELSE -1

\* str.rfind(ch): 0-based index of the last occurrence, -1 when absent.
rfind(s, ch) ==
    IF \E i \in 1..Len(s) : s[i] = ch
    THEN (CHOOSE i \in 1..Len(s) : s[i] = ch /\ \A j \in (i + 1)..Len(s) : s[j] # ch) - 1
    ELSE -1

\* s[a:b] for 0 <= a < b <= len(s).
Slice(s, a, b) == SubSeq(s, a + 1, b)

\* dict.get(key, default); a key repeated in the JSON text keeps its last value.
DictGet(d, key, default) ==
    LET hits == {i \in 1..Len(d.keys) : d.keys[i] = key} IN
    IF hits = {} THEN default
    ELSE d.vals[CHOOSE i \in hits : \A j \in hits : j <= i]

DictHas(d, key) == \E i \in 1..Len(d.keys) : d.keys[i] = key

\* d[key] = v: replaces the entry in place, or appends a new one.
DictSet(d, key, v) ==
    IF DictHas(d, key)
    THEN VObj(d.keys, [i \in 1..Len(d.keys) |-> IF d.keys[i] = key THEN v ELSE d.vals[i]])
    ELSE VObj(Append(d.keys, key), Append(d.vals, v))

\* bool(v)
Truthy(v) ==
    CASE v.t = "null" -> FALSE
      [] v.t = "bool" -> v.b
      [] v.t = "num" -> v.n # 0
      [] v.t = "str" -> v.s # ""
      [] v.t = "list" -> v.items # <<>>
      [] v.t = "obj" -> v.keys # <<>>

\* str(v) of a value v the extraction step can meet outside a dict.
PyStr(v) ==
    CASE v.t = "str" -> v.s
      [] v.t = "num" -> (CHOOSE tok \in NumberLexemes : NumberValue(tok) = v.n)
      [] v.t = "bool" -> (IF v.b THEN "True" ELSE "False")
      [] v.t = "null" -> "None"
      [] v.t = "list" -> "repr(list)"
      [] v.t = "obj" -> "repr(dict)"

-----------------------------------------------------------------------------
(* The LLM collaborator: model.generate_text(prompt) raises, returns None, *)
(* or returns a text.                                                      *)

LLMRaise == [kind |-> "raise", text |-> <<>>]
LLMNone == [kind |-> "none", text |-> <<>>]
LLMText(s) == [kind |-> "text", text |-> s]
LLMIdle == [kind |-> "idle", text |-> <<>>]

\* What a GraniteLLMService method did: returned a value or raised.
Returned(v) == [state |-> "returned", exc |-> "", value |-> v]
Raised(e) == [state |-> "raised", exc |-> e, value |-> VNull]
SvcIdle == [state |-> "idle", exc |-> "", value |-> VNull]

\* One entry of the list extract_fields returns.
FieldEntry(name, value, confidence) ==
    [field_name |-> name, value |-> value, confidence |-> confidence]

\* ConvertField taking a missing field for a direct value.
ConvertField_MissingIsDirect(parsed_data, field_name) ==
    LET field_data == DictGet(parsed_data, field_name, VNull) IN
    IF field_data.t = "obj"
    THEN FieldEntry(field_name,
                    DictGet(field_data, "value", VStr("Not found")),
                    DictGet(field_data, "confidence", VNum(50)))
    ELSE FieldEntry(field_name,
                    IF Truthy(field_data) THEN VStr(PyStr(field_data)) ELSE VStr("Not found"),
                    VNum(70))

\* Entry built from the parsed object for one requested field name.
ConvertField(parsed_data, field_name) ==
    LET field_data == DictGet(parsed_data, field_name, EmptyDict) IN
    IF field_data.t = "obj"
    THEN FieldEntry(field_name,
                    DictGet(field_data, "value", VStr("Not found")),
                    DictGet(field_data, "confidence", VNum(50)))
    ELSE FieldEntry(field_name,
                    IF Truthy(field_data) THEN VStr(PyStr(field_data)) ELSE VStr("Not found"),
                    VNum(70))

\* ErrorField with the confidence of a missing field.
ErrorField_HalfConfidence(field) ==
    FieldEntry(field, VStr("Error: Could not extract"), VNum(50))

\* The default structure returned on json.JSONDecodeError.
ErrorField(field) == FieldEntry(field, VStr("Error: Could not extract"), VNum(0))

\* recover_extraction cutting the slice at the first "}".
recover_extraction_FirstClose(response) ==
    LET json_start == find(response, "{")
        json_end == find(response, "}") + 1
    IN IF json_start >= 0 /\ json_end > json_start
       THEN json_loads(Slice(response, json_start, json_end))
       ELSE json_loads(response)

\* The extraction step's recovery: parse the slice from the first "{" to the
\* last "}", or the whole response when there is no such slice.
recover_extraction(response) ==
    LET json_start == find(response, "{")
        json_end == rfind(response, "}") + 1
    IN IF json_start >= 0 /\ json_end > json_start
       THEN json_loads(Slice(response, json_start, json_end))
       ELSE json_loads(response)

\* GraniteLLMService_extract_fields building one entry per key of the parsed
\* object instead of one per requested field.
GraniteLLMService_extract_fields_PerParsedKey(outcome, fields_to_extract) ==
    IF outcome.kind = "raise" THEN Raised("LLMError")
    ELSE IF outcome.kind = "none" THEN Raised("AttributeError")
    ELSE
      LET loaded == recover_extraction(outcome.text)
      IN IF ~loaded.ok
         THEN Returned([i \in 1..Len(fields_to_extract) |-> ErrorField(fields_to_extract[i])])
         ELSE IF loaded.val.t # "obj" /\ fields_to_extract # <<>>
         THEN Raised("AttributeError")
         ELSE IF loaded.val.t # "obj" THEN Returned(<<>>)
         ELSE Returned([i \in 1..Len(loaded.val.keys) |->
                           ConvertField(loaded.val, loaded.val.keys[i])])

\* GraniteLLMService.extract_fields, from the LLM call on.
GraniteLLMService_extract_fields(outcome, fields_to_extract) ==
    IF outcome.kind = "raise" THEN Raised("LLMError")
    ELSE IF outcome.kind = "none" THEN Raised("AttributeError")
    ELSE
      LET loaded == recover_extraction(outcome.text)
      IN IF ~loaded.ok
         THEN Returned([i \in 1..Len(fields_to_extract) |-> ErrorField(fields_to_extract[i])])
         ELSE IF loaded.val.t # "obj" /\ fields_to_extract # <<>>
         THEN Raised("AttributeError")   \* parsed_data.get on a non-dict
         ELSE Returned([i \in 1..Len(fields_to_extract) |->
                           ConvertField(loaded.val, fields_to_extract[i])])

\* re.search(r'\{.*\}', response, re.DOTALL): the greedy match runs from the
\* first "{" to the last "}" behind it.
re_search(response) ==
    LET first == find(response, "{")
        last == rfind(response, "}")
    IN IF first >= 0 /\ last > first
       THEN [found |-> TRUE, group |-> Slice(response, first, last + 1)]
       ELSE [found |-> FALSE, group |-> <<>>]

\* The grading step's recovery: parse the greedy match, when there is one.
recover_grading(response) ==
    LET json_match == re_search(response) IN
    IF json_match.found THEN json_loads(json_match.group)
    ELSE [ok |-> FALSE, val |-> VNull]

\* DegradedResult without the explanation.
DegradedResult_Silent(recommendation) ==
    VObj(<<"violations", "recommendations">>, <<VList(<<>>), VList(<<>>)>>)

\* The result check_quality builds when it has no usable model answer.
DegradedResult(recommendation) ==
    VObj(<<"violations", "recommendations">>,
         <<VList(<<>>), VList(<<VStr(recommendation)>>)>>)

\* EnsureKeys setting both keys to empty lists, present or not.
EnsureKeys_OverwritesBoth(result) ==
    DictSet(DictSet(result, "violations", VList(<<>>)), "recommendations", VList(<<>>))

\* "Ensure required keys exist"
EnsureKeys(result) ==
    LET r1 == IF DictHas(result, "violations") THEN result
              ELSE DictSet(result, "violations", VList(<<>>))
    IN IF DictHas(r1, "recommendations") THEN r1
       ELSE DictSet(r1, "recommendations", VList(<<>>))

\* GraniteLLMService.check_quality, from the LLM call on.
GraniteLLMService_check_quality(outcome) ==
    IF outcome.kind = "raise" THEN Raised("LLMError")
    ELSE IF outcome.kind = "none"
    THEN Returned(DegradedResult("LLM returned empty response. Please try again."))
    ELSE
      LET json_match == re_search(outcome.text) IN
      IF json_match.found
      THEN LET loaded == json_loads(json_match.group) IN
           IF ~loaded.ok
           THEN Returned(DegradedResult(
                    "Failed to parse quality check results. Please review manually."))
           ELSE IF loaded.val.t # "obj"
           THEN Returned(DegradedResult("LLM returned invalid response format."))
           ELSE Returned(EnsureKeys(loaded.val))
      ELSE Returned(DegradedResult(
               "Unable to parse quality check results. Please review manually."))

\* str.strip(): whitespace lexemes " " removed at both ends.
strip(s) ==
    LET solid == {i \in 1..Len(s) : s[i] # " "} IN
    IF solid = {} THEN <<>>
    ELSE SubSeq(s, CHOOSE i \in solid : \A j \in solid : i <= j,
                   CHOOSE i \in solid : \A j \in solid : j <= i)

\* GraniteLLMService.generate_iso_template, from the LLM call on.
GraniteLLMService_generate_iso_template(outcome) ==
    IF outcome.kind = "raise" THEN Raised("LLMError")
    ELSE IF outcome.kind = "none" THEN Raised("AttributeError")
    ELSE Returned(strip(outcome.text))

-----------------------------------------------------------------------------
(* Response models (models.py) *)

Valid(v) == [ok |-> TRUE, val |-> v]
Invalid == [ok |-> FALSE, val |-> VNull]

\* A required str field: present and a string.
IsStrField(d, key) == DictHas(d, key) /\ DictGet(d, key, VNull).t = "str"

\* A bool field accepts a boolean and the numbers 0 and 1.
IsBoolLike(v) == v.t = "bool" \/ (v.t = "num" /\ v.n \in {0, 100})
AsBool(v) == IF v.t = "bool" THEN v.b ELSE v.n = 100

\* RuleViolation(**violation_data)
RuleViolation(violation_data) ==
    IF violation_data.t # "obj" THEN Invalid
    ELSE IF /\ IsStrField(violation_data, "rule_id")
            /\ IsStrField(violation_data, "rule_name")
            /\ IsStrField(violation_data, "severity")
            /\ IsStrField(violation_data, "description")
            /\ IsStrField(violation_data, "violation_details")
            /\ DictHas(violation_data, "passed")
            /\ IsBoolLike(DictGet(violation_data, "passed", VNull))
    THEN Valid([rule_id |-> DictGet(violation_data, "rule_id", VNull).s,
                rule_name |-> DictGet(violation_data, "rule_name", VNull).s,
                severity |-> DictGet(violation_data, "severity", VNull).s,
                description |-> DictGet(violation_data, "description", VNull).s,
                violation_details |-> DictGet(violation_data, "violation_details", VNull).s,
                passed |-> AsBool(DictGet(violation_data, "passed", VNull))])
    ELSE Invalid

\* ExtractedField(**field_data): value Optional[str], confidence Optional[float].
ExtractedField(field_data) ==
    IF /\ field_data.value.t \in {"str", "null"}
       /\ field_data.confidence.t \in {"num", "null", "bool"}
    THEN Valid(field_data)
    ELSE Invalid

\* A List[str] field.
IsListOfStr(v) == v.t = "list" /\ \A i \in 1..Len(v.items) : v.items[i].t = "str"

\* A Dict[str, str] field.
IsDictOfStr(v) == v.t = "obj" /\ \A i \in 1..Len(v.vals) : v.vals[i].t = "str"

\* `for x in v`: the items, or TypeError when v is not iterable.  A string
\* yields its characters, a dict its keys.
PyIter(v) ==
    CASE v.t = "list" -> Valid(v.items)
      [] v.t = "str" -> Valid(IF v.s = "" THEN <<>> ELSE <<VStr("character")>>)
      [] v.t = "obj" -> Valid([i \in 1..Len(v.keys) |-> VStr(v.keys[i])])
      [] OTHER -> Invalid

-----------------------------------------------------------------------------
(* Handlers (main.py): what the body of a handler's try block did, and the   *)
(* except clauses that turn it into the HTTP response.                       *)

Return(body) == [kind |-> "return", type |-> "", status |-> 200, msg |-> <<>>, body |-> body]
RaiseHTTP(status_code, detail) ==
    [kind |-> "raise", type |-> "HTTPException", status |-> status_code,
     msg |-> <<detail>>, body |-> VNull]
RaiseError(type, message) ==
    [kind |-> "raise", type |-> type, status |-> 0, msg |-> <<message>>, body |-> VNull]

\* str(e)
StrOfException(r) ==
    IF r.type = "HTTPException"
    THEN IF r.status = 400 THEN <<"400: ">> \o r.msg ELSE <<"500: ">> \o r.msg
    ELSE r.msg

Response(status_code, detail, body) ==
    [status |-> status_code, detail |-> detail, body |-> body]

\* try: ... except Exception as e: raise HTTPException(500, prefix + str(e))
ExceptException(prefix, r) ==
    IF r.kind = "return" THEN Response(200, <<>>, r.body)
    ELSE Response(500, <<prefix>> \o StrOfException(r), VNull)

\* ExceptHTTPExceptionFirst answering 500 without str(e).
ExceptHTTPExceptionFirst_HidesCause(prefix, r) ==
    IF r.kind = "return" THEN Response(200, <<>>, r.body)
    ELSE IF r.type = "HTTPException" THEN Response(r.status, r.msg, VNull)
    ELSE Response(500, <<prefix>>, VNull)

\* try: ... except HTTPException: raise
\*          except Exception as e: raise HTTPException(500, prefix + str(e))
ExceptHTTPExceptionFirst(prefix, r) ==
    IF r.kind = "return" THEN Response(200, <<>>, r.body)
    ELSE IF r.type = "HTTPException" THEN Response(r.status, r.msg, VNull)
    ELSE Response(500, <<prefix>> \o StrOfException(r), VNull)

\* The exception a failed GraniteLLMService call propagates.
ServiceError(outcome) == RaiseError(outcome.exc, outcome.exc)

RECURSIVE sum(_)
\* sum(...) of a sequence of integers
sum(numbers) ==
    IF numbers = <<>> THEN 0 ELSE numbers[1] + sum(Tail(numbers))

\* A score is the fraction num / den.  The float actual / max * 100 compares
\* with 60, 70, 80 and 90 as this fraction does for every max_score the
\* bounded lists can reach.
Score(num, den) == [num |-> num, den |-> den]
ScoreGeq(score, threshold) == score.num >= threshold * score.den

\* severity_weights rejecting an unknown severity with weight 0.
severity_weights_UnknownIsZero(severity) ==
    CASE severity = "error" -> 10
      [] severity = "warning" -> 5
      [] severity = "info" -> 2
      [] OTHER -> 0

\* check_quality: severity_weights.get(v.severity, 1)
severity_weights(severity) ==
    CASE severity = "error" -> 10
      [] severity = "warning" -> 5
      [] severity = "info" -> 2
      [] OTHER -> 1

\* overall_score scoring an empty list as 0.
overall_score_EmptyIsZero(violations) ==
    IF Len(violations) > 0
    THEN LET max_score == sum([i \in 1..Len(violations) |-> severity_weights(violations[i].severity)])
             actual_score == sum([i \in 1..Len(violations) |->
                                     IF violations[i].passed
                                     THEN severity_weights(violations[i].severity) ELSE 0])
         IN IF max_score > 0 THEN Score(actual_score * 100, max_score) ELSE Score(0, 1)
    ELSE Score(0, 1)

\* overall_score summing the failed items into the actual score too.
overall_score_CountsFailed(violations) ==
    IF Len(violations) > 0
    THEN LET max_score == sum([i \in 1..Len(violations) |-> severity_weights(violations[i].severity)])
             actual_score == sum([i \in 1..Len(violations) |-> severity_weights(violations[i].severity)])
         IN IF max_score > 0 THEN Score(actual_score * 100, max_score) ELSE Score(0, 1)
    ELSE Score(100, 1)

\* check_quality: "Calculate overall score (weighted by severity)"
overall_score(violations) ==
    IF Len(violations) > 0
    THEN LET max_score == sum([i \in 1..Len(violations) |-> severity_weights(violations[i].severity)])
             actual_score == sum([i \in 1..Len(violations) |->
                                     IF violations[i].passed
                                     THEN severity_weights(violations[i].severity) ELSE 0])
         IN IF max_score > 0 THEN Score(actual_score * 100, max_score) ELSE Score(0, 1)
    ELSE Score(100, 1)

\* quality_grade with exclusive lower bounds.
quality_grade_Exclusive(score) ==
    IF score.num > 90 * score.den THEN "A"
    ELSE IF score.num > 80 * score.den THEN "B"
    ELSE IF score.num > 70 * score.den THEN "C"
    ELSE IF score.num > 60 * score.den THEN "D"
    ELSE "F"

\* check_quality: "Determine quality grade"
quality_grade(score) ==
    IF ScoreGeq(score, 90) THEN "A"
    ELSE IF ScoreGeq(score, 80) THEN "B"
    ELSE IF ScoreGeq(score, 70) THEN "C"
    ELSE IF ScoreGeq(score, 60) THEN "D"
    ELSE "F"

RECURSIVE ProcessViolations_Prepends(_, _)
\* ProcessViolations putting each validated item in front of the earlier ones.
ProcessViolations_Prepends(items, acc) ==
    IF items = <<>> THEN Valid(acc)
    ELSE LET violation == RuleViolation(items[1]) IN
         IF ~violation.ok THEN Invalid
         ELSE ProcessViolations_Prepends(Tail(items), <<violation.val>> \o acc)

RECURSIVE ProcessViolations(_, _)
\* "Process violations": RuleViolation(**violation_data) for each item, in
\* order; the first item that fails to validate raises.
ProcessViolations(items, acc) ==
    IF items = <<>> THEN Valid(acc)
    ELSE LET violation == RuleViolation(items[1]) IN
         IF ~violation.ok THEN Invalid
         ELSE ProcessViolations(Tail(items), Append(acc, violation.val))

CountPassed(violations, flag) ==
    Cardinality({i \in 1..Len(violations) : violations[i].passed = flag})

\* check_quality_body reporting the score the model supplies, when it does.
check_quality_body_TrustsModelScore(outcome) ==
    LET quality_results == GraniteLLMService_check_quality(outcome) IN
    IF quality_results.state = "raised" THEN ServiceError(quality_results)
    ELSE
      LET iter == PyIter(DictGet(quality_results.value, "violations", VList(<<>>)))
          processed == IF iter.ok THEN ProcessViolations(iter.val, <<>>) ELSE Invalid
          recommendations == DictGet(quality_results.value, "recommendations", VList(<<>>))
          supplied == DictGet(quality_results.value, "overall_score", VNull)
      IN IF ~iter.ok THEN RaiseError("TypeError", "object is not iterable")
         ELSE IF ~processed.ok
         THEN RaiseError("ValidationError", "validation error for RuleViolation")
         ELSE IF ~IsListOfStr(recommendations)
         THEN RaiseError("ValidationError", "validation error for QualityCheckResponse")
         ELSE LET violations == processed.val
                  score == IF supplied.t = "num" THEN Score(supplied.n, 100)
                           ELSE overall_score(violations)
                  grade == quality_grade(score)
              IN Return([overall_score |-> score,
                         total_rules_checked |-> Len(violations),
                         rules_passed |-> CountPassed(violations, TRUE),
                         rules_failed |-> CountPassed(violations, FALSE),
                         violations |-> violations,
                         recommendations |-> recommendations.items,
                         quality_grade |-> grade,
                         success |-> TRUE,
                         message |-> <<"Quality check completed with grade ", grade>>])

\* check_quality's try block after the input validation.
check_quality_body(outcome) ==
    LET quality_results == GraniteLLMService_check_quality(outcome) IN
    IF quality_results.state = "raised" THEN ServiceError(quality_results)
    ELSE
      LET iter == PyIter(DictGet(quality_results.value, "violations", VList(<<>>)))
          processed == IF iter.ok THEN ProcessViolations(iter.val, <<>>) ELSE Invalid
          recommendations == DictGet(quality_results.value, "recommendations", VList(<<>>))
      IN IF ~iter.ok THEN RaiseError("TypeError", "object is not iterable")
         ELSE IF ~processed.ok
         THEN RaiseError("ValidationError", "validation error for RuleViolation")
         ELSE IF ~IsListOfStr(recommendations)
         THEN RaiseError("ValidationError", "validation error for QualityCheckResponse")
         ELSE LET violations == processed.val
                  score == overall_score(violations)
                  grade == quality_grade(score)
              IN Return([overall_score |-> score,
                         total_rules_checked |-> Len(violations),
                         rules_passed |-> CountPassed(violations, TRUE),
                         rules_failed |-> CountPassed(violations, FALSE),
                         violations |-> violations,
                         recommendations |-> recommendations.items,
                         quality_grade |-> grade,
                         success |-> TRUE,
                         message |-> <<"Quality check completed with grade ", grade>>])

\* POST /api/v1/check-quality
check_quality(req, outcome) ==
    ExceptException("Failed to check quality: ",
        IF strip(req.generated_template) = <<>>
        THEN RaiseHTTP(400, "Generated template cannot be empty")
        ELSE check_quality_body(outcome))

RECURSIVE ConvertFields(_, _)
\* [ExtractedField(**field_data) for field_data in extracted_fields_data]
ConvertFields(data, acc) ==
    IF data = <<>> THEN Valid(acc)
    ELSE LET field == ExtractedField(data[1]) IN
         IF ~field.ok THEN Invalid
         ELSE ConvertFields(Tail(data), Append(acc, field.val))

\* extract_fields reporting no success when every field is an error entry.
extract_fields_FlagsDegraded(req, outcome) ==
    ExceptException("Failed to extract fields: ",
        IF strip(req.document_text) = <<>>
        THEN RaiseHTTP(400, "Document text cannot be empty")
        ELSE LET extracted_fields_data ==
                     GraniteLLMService_extract_fields(outcome, req.fields_to_extract) IN
             IF extracted_fields_data.state = "raised"
             THEN ServiceError(extracted_fields_data)
             ELSE LET extracted_fields == ConvertFields(extracted_fields_data.value, <<>>) IN
                  IF ~extracted_fields.ok
                  THEN RaiseError("ValidationError", "validation error for ExtractedField")
                  ELSE Return([extracted_fields |-> extracted_fields.val,
                               success |-> \E i \in 1..Len(extracted_fields.val) :
                                              extracted_fields.val[i].confidence # VNum(0),
                               message |-> <<"Fields extracted successfully">>]))

\* POST /api/v1/extract-fields
extract_fields(req, outcome) ==
    ExceptException("Failed to extract fields: ",
        IF strip(req.document_text) = <<>>
        THEN RaiseHTTP(400, "Document text cannot be empty")
        ELSE LET extracted_fields_data ==
                     GraniteLLMService_extract_fields(outcome, req.fields_to_extract) IN
             IF extracted_fields_data.state = "raised"
             THEN ServiceError(extracted_fields_data)
             ELSE LET extracted_fields == ConvertFields(extracted_fields_data.value, <<>>) IN
                  IF ~extracted_fields.ok
                  THEN RaiseError("ValidationError", "validation error for ExtractedField")
                  ELSE Return([extracted_fields |-> extracted_fields.val,
                               success |-> TRUE,
                               message |-> <<"Fields extracted successfully">>]))

\* POST /api/v1/generate-iso-template
generate_iso_template(req, outcome) ==
    ExceptException("Failed to generate ISO template: ",
        IF ~Truthy(req.extracted_fields)
        THEN RaiseHTTP(400, "Extracted fields cannot be empty")
        ELSE LET generated_template == GraniteLLMService_generate_iso_template(outcome) IN
             IF generated_template.state = "raised" THEN ServiceError(generated_template)
             ELSE Return([generated_template |-> generated_template.value,
                          document_type |-> req.document_type,
                          iso_standard |-> req.iso_standard,
                          success |-> TRUE,
                          message |-> <<"ISO template generated successfully">>]))

\* workflow_complete: severity_weights.get(v.severity, 1)
workflow_severity_weights(severity) ==
    CASE severity = "error" -> 10
      [] severity = "warning" -> 5
      [] severity = "info" -> 2
      [] OTHER -> 1

\* workflow_quality_score giving an empty violation list no credit.
workflow_quality_score_EmptyIsZero(violations) ==
    IF Len(violations) > 0
    THEN LET max_score == sum([i \in 1..Len(violations) |-> workflow_severity_weights(violations[i].severity)])
             actual_score == sum([i \in 1..Len(violations) |->
                                     IF violations[i].passed
                                     THEN workflow_severity_weights(violations[i].severity) ELSE 0])
         IN IF max_score > 0 THEN Score(actual_score * 100, max_score) ELSE Score(0, 1)
    ELSE Score(0, 1)

\* workflow_quality_score taking the weight of a failed item off the score.
workflow_quality_score_PenalisesFailed(violations) ==
    IF Len(violations) > 0
    THEN LET max_score == sum([i \in 1..Len(violations) |-> workflow_severity_weights(violations[i].severity)])
             actual_score == sum([i \in 1..Len(violations) |->
                                     IF violations[i].passed
                                     THEN workflow_severity_weights(violations[i].severity)
                                     ELSE 0 - workflow_severity_weights(violations[i].severity)])
         IN IF max_score > 0 THEN Score(actual_score * 100, max_score) ELSE Score(0, 1)
    ELSE Score(100, 1)

\* workflow_complete: "Calculate overall quality score (weighted by severity)"
workflow_quality_score(violations) ==
    IF Len(violations) > 0
    THEN LET max_score == sum([i \in 1..Len(violations) |-> workflow_severity_weights(violations[i].severity)])
             actual_score == sum([i \in 1..Len(violations) |->
                                     IF violations[i].passed
                                     THEN workflow_severity_weights(violations[i].severity) ELSE 0])
         IN IF max_score > 0 THEN Score(actual_score * 100, max_score) ELSE Score(0, 1)
    ELSE Score(100, 1)

\* workflow_complete: "Determine quality grade"
workflow_quality_grade(score) ==
    IF ScoreGeq(score, 90) THEN "A"
    ELSE IF ScoreGeq(score, 80) THEN "B"
    ELSE IF ScoreGeq(score, 70) THEN "C"
    ELSE IF ScoreGeq(score, 60) THEN "D"
    ELSE "F"

\* workflow_complete: the field names of step 2.
default_fields ==
    <<"document_title", "document_number", "revision_number", "effective_date",
      "department", "author", "purpose", "scope">>

\* {field["field_name"]: field["value"] for field in extracted_fields_data}
fields_dict_of(extracted_fields_data) ==
    VObj([i \in 1..Len(extracted_fields_data) |-> extracted_fields_data[i].field_name],
         [i \in 1..Len(extracted_fields_data) |-> extracted_fields_data[i].value])

\* workflow_complete, step 4 up to the response.
workflow_grade_body(req, locals, outcome) ==
    LET quality_results == GraniteLLMService_check_quality(outcome) IN
    IF quality_results.state = "raised" THEN ServiceError(quality_results)
    ELSE
      LET iter == PyIter(DictGet(quality_results.value, "violations", VList(<<>>)))
          processed == IF iter.ok THEN ProcessViolations(iter.val, <<>>) ELSE Invalid
          recommendations == DictGet(quality_results.value, "recommendations", VList(<<>>))
      IN IF ~iter.ok THEN RaiseError("TypeError", "object is not iterable")
         ELSE IF ~processed.ok
         THEN RaiseError("ValidationError", "validation error for RuleViolation")
         ELSE IF ~IsListOfStr(recommendations) \/ ~IsDictOfStr(locals.fields_dict)
         THEN RaiseError("ValidationError", "validation error for CompleteWorkflowResponse")
         ELSE LET violations == processed.val
                  score == workflow_quality_score(violations)
                  grade == workflow_quality_grade(score)
              IN Return([extracted_text |-> locals.extracted_text,
                         extracted_fields |-> locals.fields_dict,
                         generated_template |-> locals.generated_template,
                         document_type |-> req.document_type,
                         iso_standard |-> req.iso_standard,
                         overall_score |-> score,
                         quality_grade |-> grade,
                         total_rules_checked |-> Len(violations),
                         rules_passed |-> CountPassed(violations, TRUE),
                         rules_failed |-> CountPassed(violations, FALSE),
                         violations |-> violations,
                         recommendations |-> recommendations.items,
                         source_document |-> req.filename,
                         success |-> TRUE,
                         message |-> <<"Complete workflow executed successfully with quality grade ",
                                       grade>>])

\* process_complete, step 3 up to the response.
process_generate_body(req, outcome) ==
    LET generated_template == GraniteLLMService_generate_iso_template(outcome) IN
    IF generated_template.state = "raised" THEN ServiceError(generated_template)
    ELSE Return([generated_template |-> generated_template.value,
                 document_type |-> req.document_type,
                 iso_standard |-> req.iso_standard,
                 success |-> TRUE,
                 message |-> <<"Complete processing pipeline executed successfully">>])

-----------------------------------------------------------------------------
(* Texts the LLM can answer with *)

RECURSIVE Render(_), RenderItems(_), RenderMembers(_, _)

\* The JSON text of a value.
Render(v) ==
    CASE v.t = "null" -> <<"null">>
      [] v.t = "bool" -> (IF v.b THEN <<"true">> ELSE <<"false">>)
      [] v.t = "num" -> <<CHOOSE tok \in NumberLexemes : NumberValue(tok) = v.n>>
      [] v.t = "str" -> <<v.s>>
      [] v.t = "list" -> <<"[">> \o RenderItems(v.items) \o <<"]">>
      [] v.t = "obj" -> <<"{">> \o RenderMembers(v.keys, v.vals) \o <<"}">>

RenderItems(items) ==
    IF items = <<>> THEN <<>>
    ELSE IF Len(items) = 1 THEN Render(items[1])
    ELSE Render(items[1]) \o <<",">> \o RenderItems(Tail(items))

RenderMembers(keys, vals) ==
    IF keys = <<>> THEN <<>>
    ELSE IF Len(keys) = 1 THEN <<keys[1], ":">> \o Render(vals[1])
    ELSE <<keys[1], ":">> \o Render(vals[1]) \o <<",">> \o RenderMembers(Tail(keys), Tail(vals))

\* All sequences over S of length at most n.
SeqsUpTo(S, n) == UNION {[1..k -> S] : k \in 0..n}

\* Lexemes of the short free-form answers.
ShortAlphabet == {"{", "}", "[", "]", ":", "5", "null", "Here", "department"}
ShortTexts == SeqsUpTo(ShortAlphabet, MaxShortText)

\* Prose a model puts around its JSON.
Prefixes == {<<>>, <<"Here">>}
Suffixes == {<<>>, <<"Done">>}
Embed(S) == {pre \o Render(v) \o post : pre \in Prefixes, v \in S, post \in Suffixes}

\* Field names a caller can request.
MaxFields == 2
FieldUniverse == <<"document_title", "department">>
FieldLists == SeqsUpTo({FieldUniverse[i] : i \in 1..Len(FieldUniverse)}, MaxFields)

\* What an extraction answer can hold for one field name.
Absent == [t |-> "absent"]
FieldDataShapes ==
    {Absent,
     VObj(<<"value", "confidence">>, <<VStr("Quality Manual"), VNum(95)>>),
     VObj(<<"value">>, <<VStr("Quality Manual")>>),
     VObj(<<"confidence">>, <<VNum(170)>>),
     VObj(<<"value", "confidence">>, <<VNull, VNull>>),
     EmptyDict,
     VStr("Quality Manual"), VStr(""), VNum(500), VNum(0), VNull, VList(<<>>),
     VBool(TRUE)}

RECURSIVE KeepPresent(_, _)
KeepPresent(shape, i) ==
    IF i > Len(FieldUniverse) THEN EmptyDict
    ELSE LET rest == KeepPresent(shape, i + 1) IN
         IF shape[i] = Absent THEN rest
         ELSE VObj(<<FieldUniverse[i]>> \o rest.keys, <<shape[i]>> \o rest.vals)

ExtractionObjects ==
    {KeepPresent(shape, 1) : shape \in [1..Len(FieldUniverse) -> FieldDataShapes]}

\* JSON values that are no object, answered bare.
BareValues == {VNum(500), VNull, VList(<<>>), VList(<<VNum(500)>>), VStr("Not found"), VBool(TRUE)}

ExtractionTexts ==
    Embed(ExtractionObjects) \cup ShortTexts \cup {Render(v) : v \in BareValues}

ExtractionOutcomes == {LLMRaise, LLMNone} \cup {LLMText(s) : s \in ExtractionTexts}

\* Severity strings a model reports; "critical" is none of the catalog's.
Severities == {"error", "warning", "info", "critical"}
RuleIds == <<"QR001", "QR002", "QR003", "QR004", "QR005">>
ViolationKeys ==
    <<"rule_id", "rule_name", "severity", "description", "violation_details", "passed">>

\* A rule evaluation in the format the grading prompt demands.
ViolationEntry(id, severity, passed) ==
    VObj(ViolationKeys,
         <<VStr(id), VStr("Rule Name"), VStr(severity), VStr("What this rule checks"),
           VStr("Specific details"), VBool(passed)>>)

EntryKinds == Severities \X BOOLEAN
ViolationLists ==
    UNION {{[i \in 1..k |-> ViolationEntry(RuleIds[i], kinds[i][1], kinds[i][2])] :
               kinds \in [1..k -> EntryKinds]} : k \in 0..MaxViolations}

\* Dropping one key of an entry.
WithoutKey(entry, key) ==
    LET keep == SelectSeq(<<1, 2, 3, 4, 5, 6>>, LAMBDA i : entry.keys[i] # key)
    IN VObj([j \in 1..Len(keep) |-> entry.keys[keep[j]]],
            [j \in 1..Len(keep) |-> entry.vals[keep[j]]])

GoodEntry == ViolationEntry("QR001", "error", FALSE)

\* Entries that are not a complete, well-typed rule evaluation.
MalformedEntries ==
    {WithoutKey(GoodEntry, ViolationKeys[i]) : i \in 1..Len(ViolationKeys)}
    \cup {DictSet(GoodEntry, "passed", VStr("maybe")),
          DictSet(GoodEntry, "passed", VNull),
          DictSet(GoodEntry, "severity", VNull),
          DictSet(GoodEntry, "severity", VNum(500)),
          VStr("QR001"), VNull, EmptyDict}

\* Values of "violations" other than a list of complete entries.
OddViolations ==
    {VNull, VStr("maybe"), VStr(""), VNum(500), EmptyDict, VBool(TRUE), VList(<<>>),
     VList(<<GoodEntry>>), VList(<<DictSet(GoodEntry, "overall_score", VNum(500))>>)}
    \cup {VList(<<m>>) : m \in MalformedEntries}
    \cup {VList(<<ViolationEntry("QR001", "warning", TRUE), m>>) : m \in MalformedEntries}

OddRecommendations ==
    {VList(<<VStr("Specific recommendation 1")>>), VList(<<>>), VNull,
     VStr("Specific recommendation 1"), VList(<<VNum(500)>>)}

\* An object from optional members.
ObjectOf(keys, vals) ==
    LET keep == SelectSeq([i \in 1..Len(keys) |-> i], LAMBDA i : vals[i] # Absent)
    IN VObj([j \in 1..Len(keep) |-> keys[keep[j]]],
            [j \in 1..Len(keep) |-> vals[keep[j]]])

\* Answers in the demanded format.
ShapedGradings ==
    {VObj(<<"violations", "recommendations">>,
          <<VList(l), VList(<<VStr("Specific recommendation 1")>>)>>) : l \in ViolationLists}

\* Answers that are JSON objects of another shape.
PartialGradings ==
    {ObjectOf(<<"violations", "recommendations", "overall_score">>, <<v, r, x>>) :
        v \in OddViolations \cup {Absent},
        r \in OddRecommendations \cup {Absent},
        x \in {Absent, VNum(500)}}

GradingTexts ==
    {Render(v) : v \in ShapedGradings} \cup Embed(PartialGradings) \cup ShortTexts

GradingOutcomes == {LLMRaise, LLMNone} \cup {LLMText(s) : s \in GradingTexts}

\* Violations lists of the answers that are compared with one another.
MaxComparedViolations == 1
ComparedLists == {l \in ViolationLists : Len(l) <= MaxComparedViolations}

\* What an answer holds beside its violations: recommendations, and keys the
\* prompt does not ask for.
OtherContents ==
    {<<VList(<<VStr("Specific recommendation 1")>>), Absent, Absent>>,
     <<VList(<<>>), Absent, Absent>>,
     <<Absent, Absent, Absent>>,
     <<VList(<<VStr("Specific recommendation 1")>>), VNum(500), Absent>>,
     <<VList(<<VStr("Specific recommendation 1")>>), Absent, VStr("A")>>}

ComparedGradings ==
    {ObjectOf(<<"violations", "recommendations", "overall_score", "quality_grade">>,
              <<VList(l), other[1], other[2], other[3]>>) :
        l \in ComparedLists, other \in OtherContents}

ComparedOutcomes == {LLMText(Render(v)) : v \in ComparedGradings}

\* Prose before and behind the JSON of an answer, with braces of its own.
BracedProse == {<<>>, <<"Here">>, <<"{">>, <<"}">>, <<"{", "}">>, <<"}", "Here", "{">>}

\* Well-formed JSON objects an answer can embed.
EmbeddedObjects == ExtractionObjects \cup ComparedGradings

-----------------------------------------------------------------------------
(* Requests *)

NoRequest ==
    [document_text |-> <<>>, fields_to_extract |-> <<>>, generated_template |-> <<>>,
     extracted_fields |-> EmptyDict, filename |-> "",
     document_type |-> "quality_system_record", iso_standard |-> "ISO 9001:2015"]
NoResponse == [status |-> 0, detail |-> <<>>, body |-> VNull]

NoWork == [extracted_text |-> <<>>, fields_dict |-> EmptyDict, generated_template |-> <<>>]

NoPrevious == [llm |-> LLMIdle, svc |-> SvcIdle, http |-> NoResponse]
NoSent == [pre |-> <<>>, object |-> VNull, post |-> <<>>]
NoParsed == [extraction |-> [ok |-> FALSE, val |-> VNull],
             grading |-> [ok |-> FALSE, val |-> VNull]]

\* Request inputs
DocumentTexts == {<<>>, <<" ">>, <<" ", " ">>, <<"doc">>}
TemplateTexts == {<<>>, <<" ">>, <<" ", "template", " ">>}
FieldMaps == {EmptyDict, VObj(<<"department">>, <<VStr("Quality Manual")>>)}
Filenames == {"", "procedure.docx"}

\* What a check-quality payload can carry as extracted_fields.
QualityFieldInputs == {Absent, VNull, EmptyDict}

\* QualityCheckRequest(**payload): extracted_fields is a Dict[str, str] that
\* defaults to {} when the payload omits it.
QualityCheckRequest(payload) ==
    IF payload.extracted_fields = Absent
    THEN Valid([payload EXCEPT !.extracted_fields = EmptyDict])
    ELSE IF IsDictOfStr(payload.extracted_fields) THEN Valid(payload)
    ELSE Invalid

\* FastAPI's answer to a body its request model rejects.
RequestValidationError ==
    Response(422, <<"validation error for QualityCheckRequest">>, VNull)

\* Answers to the template prompt.
TemplateOutcomes ==
    {LLMRaise, LLMNone, LLMText(<<" ", "template", " ">>), LLMText(<<"template">>),
     LLMText(<<>>)}

\* Outcomes of document_parser.parse_document.
ParseOutcomes == {[ok |-> FALSE, text |-> <<>>], [ok |-> TRUE, text |-> <<"doc">>]}

\* Answers to the extraction prompt of a pipeline request.
PipelineExtractionOutcomes ==
    {LLMRaise, LLMText(<<"Here">>),
     LLMText(Render(VObj(<<"department">>, <<VStr("Quality Manual")>>))),
     LLMText(Render(VObj(<<"document_title", "department">>,
                         <<VObj(<<"value", "confidence">>, <<VStr("Quality Manual"), VNum(95)>>),
                           VObj(<<"value">>, <<VNull>>)>>)))}

\* Answers to the template prompt of a pipeline request.
PipelineTemplateOutcomes == {LLMRaise, LLMNone, LLMText(<<" ", "template", " ">>)}

\* Characters of the document text the extraction prompt carries.
PromptTextLimit == 3000

RECURSIVE join(_, _)
\* sep.join(lines)
join(sep, lines) ==
    IF lines = <<>> THEN <<>>
    ELSE IF Len(lines) = 1 THEN lines[1]
    ELSE lines[1] \o sep \o join(sep, Tail(lines))

\* "\n".join([f"- {key}: {value}" for key, value in extracted_fields.items()])
fields_text(extracted_fields) ==
    join(<<"\n">>, [i \in 1..Len(extracted_fields.keys) |->
                      <<"- ", extracted_fields.keys[i], ": ">> \o Render(extracted_fields.vals[i])])

\* The rule catalog the module quality_rules defines when it is imported.
QUALITY_RULES ==
    <<
      [rule_id |-> "QR001", name |-> "Required Fields Present",
       description |-> "All required fields (document_title, document_number, revision_number, effective_date, department, author, purpose, scope) must be present and not empty or 'Not found'.",
       severity |-> "error"],
      [rule_id |-> "QR002", name |-> "Document Structure Complete",
       description |-> "Generated template must include all required sections: header, purpose, scope, definitions, procedures/records, responsibilities, related documents, and revision history.",
       severity |-> "error"],
      [rule_id |-> "QR003", name |-> "Department Field Validation",
       description |-> "Department field must contain a valid department name, not 'Not found', 'N/A', or be empty.",
       severity |-> "error"],
      [rule_id |-> "QR004", name |-> "Date Validity Check",
       description |-> "Effective date must be a valid date and not older than 2 years from today.",
       severity |-> "warning"],
      [rule_id |-> "QR005", name |-> "Document Number Format",
       description |-> "Document number should follow a standard format (e.g., XXX-### or similar alphanumeric pattern).",
       severity |-> "warning"],
      [rule_id |-> "QR006", name |-> "Revision Number Format",
       description |-> "Revision number should be in a standard format (e.g., 1.0, 2.1, Rev A, etc.).",
       severity |-> "info"],
      [rule_id |-> "QR007", name |-> "Author Field Populated",
       description |-> "Author field must contain a person's name, not 'Not found' or generic text.",
       severity |-> "error"],
      [rule_id |-> "QR008", name |-> "Purpose Statement Quality",
       description |-> "Purpose statement must be clear, concise, and at least 20 characters long.",
       severity |-> "warning"],
      [rule_id |-> "QR009", name |-> "Scope Statement Quality",
       description |-> "Scope statement must be specific and at least 20 characters long.",
       severity |-> "warning"],
      [rule_id |-> "QR010", name |-> "Template Length Check",
       description |-> "Generated template must be at least 500 characters long to ensure adequate detail.",
       severity |-> "error"],
      [rule_id |-> "QR011", name |-> "ISO Standard Referenced",
       description |-> "Template must explicitly reference the ISO standard it complies with.",
       severity |-> "error"],
      [rule_id |-> "QR012", name |-> "Traceability Present",
       description |-> "Template should include document control information (version, date, approval).",
       severity |-> "warning"],
      [rule_id |-> "QR013", name |-> "Professional Language",
       description |-> "Template must use professional, formal language appropriate for ISO documentation.",
       severity |-> "info"],
      [rule_id |-> "QR014", name |-> "Field Consistency",
       description |-> "Extracted fields must be consistently used throughout the generated template.",
       severity |-> "warning"],
      [rule_id |-> "QR015", name |-> "No Placeholder Text",
       description |-> "Template must not contain placeholder text like '[INSERT TEXT]', 'TBD', or similar.",
       severity |-> "error"]
    >>

\* GraniteLLMService.__init__: what the LLM client is configured with.
GraniteLLMService_init ==
    [credentials |-> [url |-> "settings.watsonx_url", apikey |-> "settings.watsonx_api_key"],
     project_id |-> "settings.watsonx_project_id",
     model_id |-> "settings.granite_model_id",
     parameters |-> [decoding_method |-> "greedy", max_new_tokens |-> 2000,
                     min_new_tokens |-> 1, temperature |-> "0.1",
                     top_k |-> 50, top_p |-> 1]]

\* severity.upper()
upper(s) ==
    CASE s = "error" -> "ERROR"
      [] s = "warning" -> "WARNING"
      [] s = "info" -> "INFO"
      [] OTHER -> s

\* format_rules_for_prompt(), reading the catalog rules.
format_rules_for_prompt(rules) ==
    join(<<"\n\n">>, [i \in 1..Len(rules) |->
                        <<"[", rules[i].rule_id, "] ", rules[i].name, " (",
                          upper(rules[i].severity), ")\n   ", rules[i].description>>])

\* The prompt of GraniteLLMService.extract_fields.
extraction_prompt(document_text, fields_to_extract) ==
    LET fields_list == join(<<"\n">>, [i \in 1..Len(fields_to_extract) |->
                                          <<"- ", fields_to_extract[i]>>])
        shown == IF Len(document_text) < PromptTextLimit THEN Len(document_text)
                 ELSE PromptTextLimit
    IN
    <<"You are an expert at extracting structured information from documents.",
      "Document text:">>
    \o SubSeq(document_text, 1, shown)
    \o <<"Extract the following fields:">>
    \o fields_list
    \o <<"Provide your response as a JSON object with this exact format:", "Response:">>

\* The prompt of GraniteLLMService.generate_iso_template.
template_prompt(document_type, extracted_fields, iso_standard) ==
    LET fields == IF extracted_fields = VNull THEN EmptyDict ELSE extracted_fields IN
    <<"You are an expert in creating ISO compliant documentation.",
      "Generate a complete ", document_type, " template following the ", iso_standard,
      "Use the following extracted information to populate the template:">>
    \o (IF Len(fields.keys) > 0 THEN fields_text(fields)
        ELSE <<"(No fields provided - template will use generic placeholders)">>)
    \o <<"The template should include:", document_type, iso_standard, "Template:">>

\* The prompt of GraniteLLMService.check_quality, built at the time now; the
\* day of now stands for datetime.now().strftime('%Y-%m-%d').
grading_prompt(generated_template, extracted_fields, document_type, iso_standard, quality_rules, now) ==
    LET fields == IF extracted_fields = VNull THEN EmptyDict ELSE extracted_fields
        fields_available == Len(fields.keys) > 0
    IN
    <<"You are a quality assurance expert specializing in ISO documentation.",
      "- Document Type: ", document_type, "- ISO Standard: ", iso_standard,
      "EXTRACTED FIELDS:">>
    \o (IF fields_available THEN fields_text(fields)
        ELSE <<"(No extracted fields provided - field-specific validation will be limited)">>)
    \o <<"GENERATED TEMPLATE:">> \o generated_template
    \o <<"QUALITY RULES TO CHECK:">> \o quality_rules
    \o <<"- Dates older than 2 years from today's date (", ToString(now.day), ")">>
    \o (IF fields_available THEN <<>>
        ELSE <<"NOTE: Since no extracted fields were provided, focus primarily on structural and content quality rules.">>)
    \o <<"Return ONLY the JSON object, no additional text.">>

NoPrompt == [kind |-> "none", inputs |-> <<>>, text |-> <<>>]

\* The process after its modules are imported, SAVE_LOCAL_COPIES being what
\* the environment says.
Started(save_local_copies) ==
    /\ pc = "idle"
    /\ endpoint = "none"
    /\ request = NoRequest
    /\ llm = LLMIdle
    /\ llmCalls = 0
    /\ svc = SvcIdle
    /\ work = NoWork
    /\ http = NoResponse
    /\ steps = <<>>
    /\ parser = "idle"
    /\ previous = NoPrevious
    /\ sent = NoSent
    /\ parsed = NoParsed
    /\ clock = [day |-> 0, second |-> 0]
    /\ prompt = NoPrompt
    /\ earlier = NoPrompt
    /\ catalog = QUALITY_RULES
    /\ llm_service = GraniteLLMService_init
    /\ rules_text = <<>>
    /\ SAVE_LOCAL_COPIES = save_local_copies
    /\ archive = <<>>
    /\ written = <<>>
    /\ temp_file = "none"

\* SAVE_LOCAL_COPIES is unset or "false".
Init == Started(FALSE)

\* SAVE_LOCAL_COPIES is "true".
InitArchiving == Started(TRUE)

\* Nothing of an answered request outlives it.
ResetRequest ==
    /\ pc' = "idle"
    /\ endpoint' = "none"
    /\ request' = NoRequest
    /\ llm' = LLMIdle
    /\ llmCalls' = 0
    /\ svc' = SvcIdle
    /\ work' = NoWork
    /\ http' = NoResponse
    /\ steps' = <<>>
    /\ parser' = "idle"
    /\ sent' = NoSent
    /\ parsed' = NoParsed
    /\ prompt' = NoPrompt
    /\ rules_text' = <<>>
    /\ temp_file' = "none"

\* The server takes the next request.
NextRequest ==
    /\ pc = "done"
    /\ ResetRequest
    /\ UNCHANGED <<previous, clock, earlier, catalog, llm_service, SAVE_LOCAL_COPIES,
                   archive, written>>

\* datetime.now().strftime("%Y%m%d_%H%M%S")
strftime_timestamp(now) == <<ToString(now.day), "_", ToString(now.second)>>

\* with open(filepath, 'w') as f: json.dump(data, f): the file is created or
\* truncated and then holds the payload of this call.
WriteJson(filepath) ==
    /\ archive' = [path \in DOMAIN archive \cup {filepath} |->
                      IF path = filepath THEN Len(written) + 1 ELSE archive[path]]
    /\ written' = Append(written, filepath)

\* save_output_json(data, prefix)
save_output_json(prefix) ==
    IF ~SAVE_LOCAL_COPIES THEN UNCHANGED <<archive, written>>
    ELSE WriteJson(<<"outputs/">> \o prefix \o <<"_">> \o strftime_timestamp(clock)
                   \o <<".json">>)

\* check_quality: "Save to quality checks directory"
save_quality_check(document_type) ==
    IF ~SAVE_LOCAL_COPIES THEN UNCHANGED <<archive, written>>
    ELSE WriteJson(<<"quality_checks/", "quality_check_", document_type, "_">>
                   \o strftime_timestamp(clock) \o <<".json">>)

\* The grading handlers get as far as their response data: the grading call
\* returned and every violation of its result validated.
ViolationsProcessed(outcome) ==
    LET quality_results == GraniteLLMService_check_quality(outcome) IN
    /\ quality_results.state = "returned"
    /\ LET iter == PyIter(DictGet(quality_results.value, "violations", VList(<<>>))) IN
       iter.ok /\ ProcessViolations(iter.val, <<>>).ok

\* A caller invokes GraniteLLMService.extract_fields.
CallExtractFields ==
    /\ pc = "idle"
    /\ \E fields \in FieldLists, outcome \in ExtractionOutcomes :
          /\ request' = [NoRequest EXCEPT !.document_text = <<"doc">>,
                                          !.fields_to_extract = fields]
          /\ llm' = outcome
          /\ svc' = GraniteLLMService_extract_fields(outcome, fields)
    /\ llmCalls' = 1
    /\ endpoint' = "GraniteLLMService.extract_fields"
    /\ pc' = "done"
    /\ UNCHANGED <<work, http, steps, parser, previous, sent, parsed, clock, prompt,
                   earlier, catalog, llm_service, rules_text, SAVE_LOCAL_COPIES, archive,
                   written, temp_file>>

\* A caller invokes GraniteLLMService.check_quality.
CallCheckQuality ==
    /\ pc = "idle"
    /\ \E outcome \in GradingOutcomes :
          /\ llm' = outcome
          /\ svc' = GraniteLLMService_check_quality(outcome)
    /\ request' = [NoRequest EXCEPT !.generated_template = <<"template">>]
    /\ llmCalls' = 1
    /\ endpoint' = "GraniteLLMService.check_quality"
    /\ pc' = "done"
    /\ UNCHANGED <<work, http, steps, parser, previous, sent, parsed, clock, prompt,
                   earlier, catalog, llm_service, rules_text, SAVE_LOCAL_COPIES, archive,
                   written, temp_file>>

\* ExtractFieldsEndpoint asking the model before it looks at the text.
ExtractFieldsEndpoint_CallsBeforeCheck ==
    /\ pc = "idle"
    /\ \E doc \in DocumentTexts, fields \in FieldLists :
          LET req == [NoRequest EXCEPT !.document_text = doc, !.fields_to_extract = fields] IN
          /\ request' = req
          /\ \E outcome \in ExtractionOutcomes :
                /\ llm' = outcome
                /\ svc' = GraniteLLMService_extract_fields(outcome, fields)
                /\ http' = extract_fields(req, outcome)
          /\ llmCalls' = 1
    /\ endpoint' = "extract-fields"
    /\ pc' = "done"
    /\ UNCHANGED <<work, steps, parser, previous, sent, parsed, clock, prompt, earlier,
                   catalog, llm_service, rules_text, SAVE_LOCAL_COPIES, archive, written,
                   temp_file>>

\* POST /api/v1/extract-fields
ExtractFieldsEndpoint ==
    /\ pc = "idle"
    /\ \E doc \in DocumentTexts, fields \in FieldLists :
          LET req == [NoRequest EXCEPT !.document_text = doc, !.fields_to_extract = fields] IN
          /\ request' = req
          /\ \/ /\ strip(doc) = <<>>
                /\ llm' = LLMIdle /\ llmCalls' = 0 /\ svc' = SvcIdle
                /\ http' = extract_fields(req, LLMIdle)
             \/ /\ strip(doc) # <<>>
                /\ \E outcome \in ExtractionOutcomes :
                      /\ llm' = outcome
                      /\ svc' = GraniteLLMService_extract_fields(outcome, fields)
                      /\ http' = extract_fields(req, outcome)
                /\ llmCalls' = 1
    /\ endpoint' = "extract-fields"
    /\ pc' = "done"
    /\ UNCHANGED <<work, steps, parser, previous, sent, parsed, clock, prompt, earlier,
                   catalog, llm_service, rules_text, SAVE_LOCAL_COPIES, archive, written,
                   temp_file>>

\* POST /api/v1/generate-iso-template
GenerateIsoTemplateEndpoint ==
    /\ pc = "idle"
    /\ \E fields \in FieldMaps :
          LET req == [NoRequest EXCEPT !.extracted_fields = fields] IN
          /\ request' = req
          /\ \/ /\ ~Truthy(fields)
                /\ llm' = LLMIdle /\ llmCalls' = 0 /\ svc' = SvcIdle
                /\ http' = generate_iso_template(req, LLMIdle)
                /\ UNCHANGED <<archive, written>>
             \/ /\ Truthy(fields)
                /\ \E outcome \in TemplateOutcomes :
                      /\ llm' = outcome
                      /\ svc' = GraniteLLMService_generate_iso_template(outcome)
                      /\ http' = generate_iso_template(req, outcome)
                      /\ IF GraniteLLMService_generate_iso_template(outcome).state = "returned"
                         THEN save_output_json(<<"iso_template_", req.document_type>>)
                         ELSE UNCHANGED <<archive, written>>
                /\ llmCalls' = 1
    /\ endpoint' = "generate-iso-template"
    /\ pc' = "done"
    /\ UNCHANGED <<work, steps, parser, previous, sent, parsed, clock, prompt, earlier,
                   catalog, llm_service, rules_text, SAVE_LOCAL_COPIES, temp_file>>

\* POST /api/v1/check-quality, for payloads and LLM answers of the given sets.
CheckQualityWith(templates, field_maps, outcomes) ==
    /\ pc = "idle"
    /\ \E template \in templates, fields \in field_maps :
          LET payload == [NoRequest EXCEPT !.generated_template = template,
                                           !.extracted_fields = fields]
              req == QualityCheckRequest(payload)
          IN
          /\ request' = payload
          /\ \/ /\ ~req.ok
                /\ llm' = LLMIdle /\ llmCalls' = 0 /\ svc' = SvcIdle
                /\ http' = RequestValidationError
                /\ UNCHANGED <<rules_text, archive, written>>
             \/ /\ req.ok /\ strip(template) = <<>>
                /\ llm' = LLMIdle /\ llmCalls' = 0 /\ svc' = SvcIdle
                /\ http' = check_quality(req.val, LLMIdle)
                /\ UNCHANGED <<rules_text, archive, written>>
             \/ /\ req.ok /\ strip(template) # <<>>
                /\ rules_text' = format_rules_for_prompt(catalog)
                /\ \E outcome \in outcomes :
                      /\ llm' = outcome
                      /\ svc' = GraniteLLMService_check_quality(outcome)
                      /\ http' = check_quality(req.val, outcome)
                      /\ IF ViolationsProcessed(outcome)
                         THEN save_quality_check(req.val.document_type)
                         ELSE UNCHANGED <<archive, written>>
                /\ llmCalls' = 1
    /\ endpoint' = "check-quality"
    /\ pc' = "done"
    /\ UNCHANGED <<work, steps, parser, previous, sent, parsed, clock, prompt, earlier,
                   catalog, llm_service, SAVE_LOCAL_COPIES, temp_file>>

\* POST /api/v1/check-quality
CheckQualityEndpoint == CheckQualityWith(TemplateTexts, QualityFieldInputs, GradingOutcomes)

\* What an upload handler's copying of the upload into a temporary file can
\* come to: the file cannot be made, reading the upload or writing the file
\* fails, or the upload is stored.
UploadOutcomes == {"create failed", "copy failed", "stored"}

\* The answer to a request whose handler lets an exception escape.
InternalServerError == Response(500, <<"Internal Server Error">>, VNull)

\* finally: if temp_file_path and os.path.exists(temp_file_path):
\*              os.unlink(temp_file_path)
finally_unlink(file) == IF file = "exists" THEN "deleted" ELSE file

\* The request ends with an error response.
Fails(response) ==
    /\ http' = response
    /\ pc' = "done"

\* POST /api/v1/parse-document
ParseDocumentEndpoint ==
    /\ pc = "idle"
    /\ endpoint' = "parse-document"
    /\ pc' = "done"
    /\ UNCHANGED <<llm, llmCalls, svc, work, steps, previous, sent, parsed, clock, prompt,
                   earlier, catalog, llm_service, rules_text, SAVE_LOCAL_COPIES, archive,
                   written>>
    /\ \E filename \in Filenames :
          /\ request' = [NoRequest EXCEPT !.filename = filename]
          /\ \/ /\ filename = ""
                /\ http' = Response(400, <<"No file provided">>, VNull)
                /\ UNCHANGED <<parser, temp_file>>
             \/ /\ filename # ""
                /\ \E upload \in UploadOutcomes :
                      \/ /\ upload = "create failed"
                         /\ temp_file' = "none"
                         /\ http' = ExceptException("Failed to parse document: ",
                                        RaiseError("OSError", "cannot create temporary file"))
                         /\ UNCHANGED parser
                      \/ /\ upload = "copy failed"
                         /\ temp_file' = "exists"
                         /\ http' = InternalServerError
                         /\ UNCHANGED parser
                      \/ /\ upload = "stored"
                         /\ temp_file' = finally_unlink("exists")
                         /\ \E outcome \in ParseOutcomes :
                               /\ parser' = IF outcome.ok THEN "returned" ELSE "raised"
                               /\ http' = ExceptException("Failed to parse document: ",
                                      IF outcome.ok
                                      THEN Return([extracted_text |-> outcome.text,
                                                   success |-> TRUE,
                                                   message |-> <<"Document parsed successfully">>])
                                      ELSE RaiseError("Exception", "conversion failed"))

\* POST /api/v1/workflow-complete: the file check and step 1.
WorkflowParse ==
    /\ pc = "idle"
    /\ endpoint' = "workflow-complete"
    /\ UNCHANGED <<llm, llmCalls, svc, previous, sent, parsed, clock, prompt, earlier,
                   catalog, llm_service, rules_text, SAVE_LOCAL_COPIES, archive, written>>
    /\ \E filename \in Filenames :
          LET req == [NoRequest EXCEPT !.filename = filename] IN
          /\ request' = req
          /\ \/ /\ filename = ""
                /\ Fails(ExceptHTTPExceptionFirst("Failed to complete workflow: ",
                                                  RaiseHTTP(400, "No file provided")))
                /\ UNCHANGED <<work, steps, parser, temp_file>>
             \/ /\ filename # ""
                /\ steps' = Append(steps, "parse")
                /\ \E upload \in UploadOutcomes :
                      \/ /\ upload = "create failed"
                         /\ temp_file' = "none"
                         /\ Fails(ExceptHTTPExceptionFirst("Failed to complete workflow: ",
                                      RaiseError("OSError", "cannot create temporary file")))
                         /\ UNCHANGED <<work, parser>>
                      \/ /\ upload = "copy failed"
                         /\ temp_file' = "exists"
                         /\ Fails(ExceptHTTPExceptionFirst("Failed to complete workflow: ",
                                      RaiseError("OSError", "upload not copied")))
                         /\ UNCHANGED <<work, parser>>
                      \/ /\ upload = "stored"
                         /\ \E outcome \in ParseOutcomes :
                               \/ /\ ~outcome.ok
                                  /\ parser' = "raised"
                                  /\ temp_file' = finally_unlink("exists")
                                  /\ Fails(ExceptHTTPExceptionFirst("Failed to complete workflow: ",
                                               RaiseError("Exception", "conversion failed")))
                                  /\ UNCHANGED work
                               \/ /\ outcome.ok
                                  /\ parser' = "returned"
                                  /\ temp_file' = "exists"
                                  /\ work' = [work EXCEPT !.extracted_text = outcome.text]
                                  /\ pc' = "extract"
                                  /\ UNCHANGED http

\* workflow_complete, step 2.
WorkflowExtract ==
    /\ pc = "extract" /\ endpoint = "workflow-complete"
    /\ steps' = Append(steps, "extract")
    /\ \E outcome \in PipelineExtractionOutcomes :
          LET extracted_fields_data == GraniteLLMService_extract_fields(outcome, default_fields) IN
          /\ llm' = outcome
          /\ svc' = extracted_fields_data
          /\ \/ /\ extracted_fields_data.state = "raised"
                /\ Fails(ExceptHTTPExceptionFirst("Failed to complete workflow: ",
                                                  ServiceError(extracted_fields_data)))
                /\ UNCHANGED work
             \/ /\ extracted_fields_data.state = "returned"
                /\ work' = [work EXCEPT !.fields_dict = fields_dict_of(extracted_fields_data.value)]
                /\ pc' = "generate"
                /\ UNCHANGED http
    /\ llmCalls' = llmCalls + 1
    /\ temp_file' = IF pc' = "done" THEN finally_unlink(temp_file) ELSE temp_file
    /\ UNCHANGED <<endpoint, request, parser, previous, sent, parsed, clock, prompt,
                   earlier, catalog, llm_service, rules_text, SAVE_LOCAL_COPIES, archive,
                   written>>

\* WorkflowGenerate going back to step 2 when the template call fails.
WorkflowGenerate_RedoesExtract ==
    /\ pc = "generate" /\ endpoint = "workflow-complete"
    /\ steps' = Append(steps, "generate")
    /\ \E outcome \in PipelineTemplateOutcomes :
          LET generated_template == GraniteLLMService_generate_iso_template(outcome) IN
          /\ llm' = outcome
          /\ svc' = generated_template
          /\ \/ /\ generated_template.state = "raised"
                /\ pc' = "extract"
                /\ UNCHANGED <<work, http>>
             \/ /\ generated_template.state = "returned"
                /\ work' = [work EXCEPT !.generated_template = generated_template.value]
                /\ pc' = "grade"
                /\ UNCHANGED http
    /\ llmCalls' = llmCalls + 1
    /\ temp_file' = IF pc' = "done" THEN finally_unlink(temp_file) ELSE temp_file
    /\ UNCHANGED <<endpoint, request, parser, previous, sent, parsed, clock, prompt,
                   earlier, catalog, llm_service, rules_text, SAVE_LOCAL_COPIES, archive,
                   written>>

\* workflow_complete, step 3.
WorkflowGenerate ==
    /\ pc = "generate" /\ endpoint = "workflow-complete"
    /\ steps' = Append(steps, "generate")
    /\ \E outcome \in PipelineTemplateOutcomes :
          LET generated_template == GraniteLLMService_generate_iso_template(outcome) IN
          /\ llm' = outcome
          /\ svc' = generated_template
          /\ \/ /\ generated_template.state = "raised"
                /\ Fails(ExceptHTTPExceptionFirst("Failed to complete workflow: ",
                                                  ServiceError(generated_template)))
                /\ UNCHANGED work
             \/ /\ generated_template.state = "returned"
                /\ work' = [work EXCEPT !.generated_template = generated_template.value]
                /\ pc' = "grade"
                /\ UNCHANGED http
    /\ llmCalls' = llmCalls + 1
    /\ temp_file' = IF pc' = "done" THEN finally_unlink(temp_file) ELSE temp_file
    /\ UNCHANGED <<endpoint, request, parser, previous, sent, parsed, clock, prompt,
                   earlier, catalog, llm_service, rules_text, SAVE_LOCAL_COPIES, archive,
                   written>>

\* WorkflowGrade asking the model a second time when no report can be
\* recovered from its first answer.
WorkflowGrade_RetriesMalformed ==
    /\ pc = "grade" /\ endpoint = "workflow-complete"
    /\ steps' = Append(steps, "grade")
    /\ \E outcome \in GradingOutcomes :
          /\ llm' = outcome
          /\ svc' = GraniteLLMService_check_quality(outcome)
          /\ http' = ExceptHTTPExceptionFirst("Failed to complete workflow: ",
                                              workflow_grade_body(request, work, outcome))
          /\ IF ViolationsProcessed(outcome)
             THEN save_output_json(<<"complete_workflow_", request.document_type>>)
             ELSE UNCHANGED <<archive, written>>
          /\ llmCalls' = IF outcome.kind = "text" /\ ~recover_grading(outcome.text).ok
                         THEN llmCalls + 2 ELSE llmCalls + 1
    /\ pc' = "done"
    /\ temp_file' = IF pc' = "done" THEN finally_unlink(temp_file) ELSE temp_file
    /\ rules_text' = format_rules_for_prompt(catalog)
    /\ UNCHANGED <<endpoint, request, work, parser, previous, sent, parsed, clock, prompt,
                   earlier, catalog, llm_service, SAVE_LOCAL_COPIES>>

\* WorkflowGrade narrowing the shared catalog to the rules of severity error
\* before it formats them.
WorkflowGrade_FiltersCatalogInPlace ==
    /\ pc = "grade" /\ endpoint = "workflow-complete"
    /\ steps' = Append(steps, "grade")
    /\ \E outcome \in GradingOutcomes :
          /\ llm' = outcome
          /\ svc' = GraniteLLMService_check_quality(outcome)
          /\ http' = ExceptHTTPExceptionFirst("Failed to complete workflow: ",
                                              workflow_grade_body(request, work, outcome))
          /\ IF ViolationsProcessed(outcome)
             THEN save_output_json(<<"complete_workflow_", request.document_type>>)
             ELSE UNCHANGED <<archive, written>>
    /\ llmCalls' = llmCalls + 1
    /\ pc' = "done"
    /\ temp_file' = IF pc' = "done" THEN finally_unlink(temp_file) ELSE temp_file
    /\ catalog' = SelectSeq(catalog, LAMBDA rule : rule.severity = "error")
    /\ rules_text' = format_rules_for_prompt(catalog')
    /\ UNCHANGED <<endpoint, request, work, parser, previous, sent, parsed, clock, prompt,
                   earlier, llm_service, SAVE_LOCAL_COPIES>>

\* workflow_complete, step 4 and the response.
WorkflowGrade ==
    /\ pc = "grade" /\ endpoint = "workflow-complete"
    /\ steps' = Append(steps, "grade")
    /\ \E outcome \in GradingOutcomes :
          /\ llm' = outcome
          /\ svc' = GraniteLLMService_check_quality(outcome)
          /\ http' = ExceptHTTPExceptionFirst("Failed to complete workflow: ",
                                              workflow_grade_body(request, work, outcome))
          /\ IF ViolationsProcessed(outcome)
             THEN save_output_json(<<"complete_workflow_", request.document_type>>)
             ELSE UNCHANGED <<archive, written>>
    /\ llmCalls' = llmCalls + 1
    /\ pc' = "done"
    /\ temp_file' = IF pc' = "done" THEN finally_unlink(temp_file) ELSE temp_file
    /\ rules_text' = format_rules_for_prompt(catalog)
    /\ UNCHANGED <<endpoint, request, work, parser, previous, sent, parsed, clock, prompt,
                   earlier, catalog, llm_service, SAVE_LOCAL_COPIES>>

\* POST /api/v1/process-complete: the file check and step 1.
ProcessParse ==
    /\ pc = "idle"
    /\ endpoint' = "process-complete"
    /\ UNCHANGED <<llm, llmCalls, svc, previous, sent, parsed, clock, prompt, earlier,
                   catalog, llm_service, rules_text, SAVE_LOCAL_COPIES, archive, written>>
    /\ \E filename \in Filenames :
          LET req == [NoRequest EXCEPT !.filename = filename] IN
          /\ request' = req
          /\ \/ /\ filename = ""
                /\ Fails(Response(400, <<"File is required. Please upload a document file.">>,
                                  VNull))
                /\ UNCHANGED <<work, steps, parser, temp_file>>
             \/ /\ filename # ""
                /\ steps' = Append(steps, "parse")
                /\ \E upload \in UploadOutcomes :
                      \/ /\ upload = "create failed"
                         /\ temp_file' = "none"
                         /\ Fails(ExceptException("Failed to complete processing: ",
                                      RaiseError("OSError", "cannot create temporary file")))
                         /\ UNCHANGED <<work, parser>>
                      \/ /\ upload = "copy failed"
                         /\ temp_file' = "exists"
                         /\ Fails(InternalServerError)
                         /\ UNCHANGED <<work, parser>>
                      \/ /\ upload = "stored"
                         /\ \E outcome \in ParseOutcomes :
                               \/ /\ ~outcome.ok
                                  /\ parser' = "raised"
                                  /\ temp_file' = finally_unlink("exists")
                                  /\ Fails(ExceptException("Failed to complete processing: ",
                                               RaiseError("Exception", "conversion failed")))
                                  /\ UNCHANGED work
                               \/ /\ outcome.ok
                                  /\ parser' = "returned"
                                  /\ temp_file' = "exists"
                                  /\ work' = [work EXCEPT !.extracted_text = outcome.text]
                                  /\ pc' = "extract"
                                  /\ UNCHANGED http

\* process_complete, step 2.
ProcessExtract ==
    /\ pc = "extract" /\ endpoint = "process-complete"
    /\ steps' = Append(steps, "extract")
    /\ \E outcome \in PipelineExtractionOutcomes :
          LET extracted_fields_data == GraniteLLMService_extract_fields(outcome, default_fields) IN
          /\ llm' = outcome
          /\ svc' = extracted_fields_data
          /\ \/ /\ extracted_fields_data.state = "raised"
                /\ Fails(ExceptException("Failed to complete processing: ",
                                         ServiceError(extracted_fields_data)))
                /\ UNCHANGED work
             \/ /\ extracted_fields_data.state = "returned"
                /\ work' = [work EXCEPT !.fields_dict = fields_dict_of(extracted_fields_data.value)]
                /\ pc' = "generate"
                /\ UNCHANGED http
    /\ llmCalls' = llmCalls + 1
    /\ temp_file' = IF pc' = "done" THEN finally_unlink(temp_file) ELSE temp_file
    /\ UNCHANGED <<endpoint, request, parser, previous, sent, parsed, clock, prompt,
                   earlier, catalog, llm_service, rules_text, SAVE_LOCAL_COPIES, archive,
                   written>>

\* process_complete, step 3 and the response.
ProcessGenerate ==
    /\ pc = "generate" /\ endpoint = "process-complete"
    /\ steps' = Append(steps, "generate")
    /\ \E outcome \in PipelineTemplateOutcomes :
          /\ llm' = outcome
          /\ svc' = GraniteLLMService_generate_iso_template(outcome)
          /\ http' = ExceptException("Failed to complete processing: ",
                                     process_generate_body(request, outcome))
          /\ IF GraniteLLMService_generate_iso_template(outcome).state = "returned"
             THEN save_output_json(<<"complete_pipeline_", request.document_type>>)
             ELSE UNCHANGED <<archive, written>>
          /\ work' = [work EXCEPT !.generated_template =
                         IF outcome.kind = "text" THEN strip(outcome.text) ELSE <<>>]
    /\ llmCalls' = llmCalls + 1
    /\ pc' = "done"
    /\ temp_file' = IF pc' = "done" THEN finally_unlink(temp_file) ELSE temp_file
    /\ UNCHANGED <<endpoint, request, parser, previous, sent, parsed, clock, prompt,
                   earlier, catalog, llm_service, rules_text, SAVE_LOCAL_COPIES>>

\* POST /api/v1/check-quality of a request that is compared with the one
\* served before it.
ComparedCheckQuality ==
    CheckQualityWith({<<>>, <<"template">>}, {VNull, EmptyDict}, ComparedOutcomes)

\* The server takes the next request; the answered one is remembered.
NextComparedRequest ==
    /\ pc = "done"
    /\ ResetRequest
    /\ previous' = [llm |-> llm, svc |-> svc, http |-> http]
    /\ UNCHANGED <<clock, earlier, catalog, llm_service, SAVE_LOCAL_COPIES,
                   archive, written>>

\* Both recoveries are applied to an answer made of prose, one JSON object
\* and prose.
RecoverEmbedded ==
    /\ pc = "idle"
    /\ \E pre \in BracedProse, object \in EmbeddedObjects, post \in BracedProse :
          LET response == pre \o Render(object) \o post IN
          /\ sent' = [pre |-> pre, object |-> object, post |-> post]
          /\ llm' = LLMText(response)
          /\ parsed' = [extraction |-> recover_extraction(response),
                        grading |-> recover_grading(response)]
    /\ llmCalls' = 1
    /\ endpoint' = "recovery"
    /\ pc' = "done"
    /\ UNCHANGED <<request, svc, work, http, steps, parser, previous, clock, prompt,
                   earlier, catalog, llm_service, rules_text, SAVE_LOCAL_COPIES, archive,
                   written, temp_file>>

\* Time passes: within the day, or into the next day.
Tick ==
    /\ clock.day + clock.second < MaxTicks
    /\ \/ clock' = [clock EXCEPT !.second = @ + 1]
       \/ clock' = [day |-> clock.day + 1, second |-> 0]
    /\ UNCHANGED <<pc, endpoint, request, llm, llmCalls, svc, work, http,
                   steps, parser, previous, sent, parsed, prompt, earlier, catalog,
                   llm_service, rules_text, SAVE_LOCAL_COPIES, archive, written,
                   temp_file>>

\* The frame of an action that only builds a prompt.
BuildsPrompt(kind) ==
    /\ pc = "idle"
    /\ endpoint' = kind
    /\ pc' = "done"
    /\ UNCHANGED <<request, llm, llmCalls, svc, work, http, steps, parser,
                   previous, sent, parsed, clock, earlier, catalog, llm_service,
                   rules_text, SAVE_LOCAL_COPIES, archive, written, temp_file>>

\* GraniteLLMService.extract_fields builds its prompt.
BuildExtractionPrompt ==
    /\ BuildsPrompt("extraction prompt")
    /\ \E document_text \in DocumentTexts, fields \in FieldLists :
          prompt' = [kind |-> "extraction", inputs |-> <<document_text, fields>>,
                     text |-> extraction_prompt(document_text, fields)]

\* GraniteLLMService.generate_iso_template builds its prompt.
BuildTemplatePrompt ==
    /\ BuildsPrompt("template prompt")
    /\ \E fields \in FieldMaps \cup {VNull} :
          prompt' = [kind |-> "template",
                     inputs |-> <<NoRequest.document_type, fields, NoRequest.iso_standard>>,
                     text |-> template_prompt(NoRequest.document_type, fields,
                                              NoRequest.iso_standard)]

\* GraniteLLMService.check_quality builds its prompt.
BuildGradingPrompt ==
    /\ BuildsPrompt("grading prompt")
    /\ \E template \in TemplateTexts, fields \in FieldMaps \cup {VNull},
          quality_rules \in {<<>>, format_rules_for_prompt(catalog)} :
          prompt' = [kind |-> "grading",
                     inputs |-> <<template, fields, NoRequest.document_type,
                                  NoRequest.iso_standard, quality_rules>>,
                     text |-> grading_prompt(template, fields, NoRequest.document_type,
                                             NoRequest.iso_standard, quality_rules, clock)]

\* The server takes the next request; the prompt just built is remembered.
NextPromptRequest ==
    /\ pc = "done"
    /\ ResetRequest
    /\ earlier' = prompt
    /\ UNCHANGED <<previous, clock, catalog, llm_service, SAVE_LOCAL_COPIES,
                   archive, written>>

NextApi ==
    \/ ParseDocumentEndpoint
    \/ ExtractFieldsEndpoint
    \/ GenerateIsoTemplateEndpoint
    \/ CheckQualityEndpoint
    \/ WorkflowParse
    \/ WorkflowExtract
    \/ WorkflowGenerate
    \/ WorkflowGrade
    \/ ProcessParse
    \/ ProcessExtract
    \/ ProcessGenerate
    \/ NextRequest
SpecApi == Init /\ [][NextApi]_vars

NextGrade == CallCheckQuality \/ NextRequest
SpecGrade == Init /\ [][NextGrade]_vars

NextExtract == CallExtractFields \/ NextRequest
SpecExtract == Init /\ [][NextExtract]_vars

NextRecover == RecoverEmbedded \/ NextRequest
SpecRecover == Init /\ [][NextRecover]_vars

NextPair == ComparedCheckQuality \/ NextComparedRequest
SpecPair == Init /\ [][NextPair]_vars

NextArchive ==
    \/ GenerateIsoTemplateEndpoint
    \/ ComparedCheckQuality
    \/ ProcessParse
    \/ ProcessExtract
    \/ ProcessGenerate
    \/ Len(written) < MaxArchived /\ NextRequest
    \/ Tick
SpecArchive == InitArchiving /\ [][NextArchive]_vars

NextPrompt ==
    \/ BuildExtractionPrompt
    \/ BuildTemplatePrompt
    \/ BuildGradingPrompt
    \/ NextPromptRequest
    \/ Tick
SpecPrompt == Init /\ [][NextPrompt]_vars

-----------------------------------------------------------------------------
(* Properties *)

\* The request has been answered.
Done(name) == pc = "done" /\ endpoint = name

\* A grading endpoint has answered after its grading call returned a text.
GradedText ==
    \/ Done("check-quality") /\ llmCalls = 1 /\ llm.kind = "text"
    \/ /\ Done("workflow-complete") /\ llmCalls = 3 /\ llm.kind = "text"
       /\ IsDictOfStr(work.fields_dict)

\* A grading endpoint has answered with a report.
Graded == pc = "done" /\ endpoint \in {"check-quality", "workflow-complete"} /\ http.status = 200

\* Position of the first "{" and of the last "}" of a text (0 when absent).
FirstOpen(text) ==
    IF \E i \in 1..Len(text) : text[i] = "{"
    THEN CHOOSE i \in 1..Len(text) : text[i] = "{" /\ \A j \in 1..(i - 1) : text[j] # "{"
    ELSE 0
LastClose(text) ==
    IF \E i \in 1..Len(text) : text[i] = "}"
    THEN CHOOSE i \in 1..Len(text) : text[i] = "}" /\ \A j \in (i + 1)..Len(text) : text[j] # "}"
    ELSE 0
HasSpan(text) == FirstOpen(text) > 0 /\ LastClose(text) > FirstOpen(text)
Span(text) == SubSeq(text, FirstOpen(text), LastClose(text))
IsJson(text) == json_loads(text).ok

\* C1: every grading response text, JSON or not and whatever the shape of its
\* JSON, leads check-quality and workflow-complete to a 200 response with
\* success = true.
C1_MalformedGradingIsDegraded ==
    GradedText => http.status = 200 /\ http.body.success

\* C2: a blank document_text on extract-fields, an empty extracted_fields on
\* generate-iso-template and a blank generated_template on check-quality are
\* answered with a 4xx status that carries the descriptive message.
IsClientError ==
    \/ Done("extract-fields") /\ strip(request.document_text) = <<>>
    \/ Done("generate-iso-template") /\ request.extracted_fields.keys = <<>>
    \/ Done("check-quality") /\ strip(request.generated_template) = <<>>
C2_ClientErrorIs4xx ==
    IsClientError =>
        /\ http.status \in 400..499
        /\ http.detail \in {<<"Document text cannot be empty">>,
                            <<"Extracted fields cannot be empty">>,
                            <<"Generated template cannot be empty">>}

\* C3: GraniteLLMService.extract_fields returns a field list for every
\* response text, and raises only when the LLM call itself failed.
C3_ExtractNeverRaisesOnContent ==
    Done("GraniteLLMService.extract_fields") =>
        /\ llm.kind = "text" => svc.state = "returned"
        /\ svc.state = "raised" => llm.kind = "raise"

\* C4: when neither the response nor its "{...}" slice is valid JSON,
\* extract_fields returns, for each requested field name in turn, the entry
\* (name, "Error: Could not extract", 0.0).
NotJsonAtAll(text) == ~IsJson(text) /\ (HasSpan(text) => ~IsJson(Span(text)))
C4_UnparseableYieldsErrorFields ==
    (Done("GraniteLLMService.extract_fields") /\ llm.kind = "text" /\ NotJsonAtAll(llm.text)) =>
        /\ svc.state = "returned"
        /\ Len(svc.value) = Len(request.fields_to_extract)
        /\ \A i \in 1..Len(svc.value) :
              svc.value[i] = [field_name |-> request.fields_to_extract[i],
                              value |-> VStr("Error: Could not extract"),
                              confidence |-> VNum(0)]
C4_Witness ==
    /\ Done("GraniteLLMService.extract_fields") /\ llm.kind = "text"
    /\ NotJsonAtAll(llm.text) /\ HasSpan(llm.text)
    /\ Len(request.fields_to_extract) = 2
    /\ svc.state = "returned"

\* C5: when the "{...}" slice of the response is a JSON object without an
\* entry for a requested field name, that field is returned as
\* (name, "Not found", 0.5), whatever the object holds for the other names.
OmittedFrom(text, name) ==
    /\ HasSpan(text) /\ IsJson(Span(text))
    /\ \A k \in 1..Len(Span(text)) - 1 : ~(Span(text)[k] = name /\ Span(text)[k + 1] = ":")
C5_OmittedFieldIsNotFound ==
    (Done("GraniteLLMService.extract_fields") /\ llm.kind = "text") =>
        \A i \in 1..Len(request.fields_to_extract) :
            OmittedFrom(llm.text, request.fields_to_extract[i]) =>
                /\ svc.state = "returned"
                /\ svc.value[i] = [field_name |-> request.fields_to_extract[i],
                                   value |-> VStr("Not found"),
                                   confidence |-> VNum(50)]
C5_Witness ==
    /\ Done("GraniteLLMService.extract_fields") /\ llm.kind = "text"
    /\ request.fields_to_extract = <<"document_title", "department">>
    /\ OmittedFrom(llm.text, "department")
    /\ ~OmittedFrom(llm.text, "document_title")
    /\ svc.state = "returned"
    /\ svc.value[1].value = VStr("Quality Manual")

\* C6: when the grading response is None, has no "{...}" span, or has a span
\* that is not valid JSON, check_quality returns a result with an empty
\* violations list and exactly one recommendation, a message about the failure.
FailureMessages ==
    {"LLM returned empty response. Please try again.",
     "Failed to parse quality check results. Please review manually.",
     "Unable to parse quality check results. Please review manually."}
GradingUnusable ==
    \/ llm.kind = "none"
    \/ llm.kind = "text" /\ (~HasSpan(llm.text) \/ ~IsJson(Span(llm.text)))
C6_UnusableGradingIsDegraded ==
    (Done("GraniteLLMService.check_quality") /\ GradingUnusable) =>
        /\ svc.state = "returned"
        /\ DictGet(svc.value, "violations", VNull) = VList(<<>>)
        /\ LET recommendations == DictGet(svc.value, "recommendations", VNull) IN
           /\ recommendations.t = "list"
           /\ Len(recommendations.items) = 1
           /\ recommendations.items[1].t = "str"
           /\ recommendations.items[1].s \in FailureMessages
C6_Witness ==
    /\ Done("GraniteLLMService.check_quality") /\ llm.kind = "text"
    /\ HasSpan(llm.text) /\ ~IsJson(Span(llm.text))
    /\ svc.state = "returned"

\* Weight of a severity as the scoring rule states it.
StatedWeight(severity) ==
    IF severity = "error" THEN 10
    ELSE IF severity = "warning" THEN 5
    ELSE IF severity = "info" THEN 2
    ELSE 1
RECURSIVE StatedSum(_, _)
\* Sum of the stated weights, of all items or of the passed ones only.
StatedSum(violations, passed_only) ==
    IF violations = <<>> THEN 0
    ELSE (IF passed_only /\ ~violations[1].passed THEN 0
          ELSE StatedWeight(violations[1].severity))
         + StatedSum(Tail(violations), passed_only)
SeverityPassed(violations) ==
    [i \in 1..Len(violations) |-> <<violations[i].severity, violations[i].passed>>]

\* C7: for a non-empty violation list the overall score is
\* (weights of the passed items) / (weights of all items) * 100 with weights
\* error 10, warning 5, info 2, any other severity 1; the list
\* [(error, failed), (warning, passed)] scores 5/15*100 and is graded F.
C7_ScoreIsWeightedShare ==
    (Graded /\ Len(http.body.violations) > 0) =>
        LET violations == http.body.violations
            score == http.body.overall_score
        IN /\ score.den > 0
           /\ score.num * StatedSum(violations, FALSE)
                 = 100 * StatedSum(violations, TRUE) * score.den
           /\ SeverityPassed(violations) = <<<<"error", FALSE>>, <<"warning", TRUE>>>> =>
                 /\ score.num * 15 = 100 * 5 * score.den
                 /\ http.body.quality_grade = "F"
C7_Witness ==
    /\ Graded
    /\ SeverityPassed(http.body.violations)
          = <<<<"error", FALSE>>, <<"warning", TRUE>>, <<"critical", TRUE>>>>
    /\ http.body.overall_score = Score(600, 16)

\* C8: the grade is A iff score >= 90, B iff 80 <= score < 90, C iff
\* 70 <= score < 80, D iff 60 <= score < 70, F iff score < 60.
AtLeast(score, threshold) == score.num >= threshold * score.den
NoneFailed(violations) == \A i \in 1..Len(violations) : violations[i].passed
C9_NoFailureScoresFull ==
    (Graded /\ NoneFailed(http.body.violations)) =>
        /\ http.body.overall_score.num = 100 * http.body.overall_score.den
        /\ http.body.quality_grade = "A"
C9_Witness ==
    /\ Graded /\ NoneFailed(http.body.violations)
    /\ \E i, j \in 1..Len(http.body.violations) :
          http.body.violations[i].severity # http.body.violations[j].severity
    /\ http.body.quality_grade = "A"

\* C10: a non-empty violation list whose items all failed with severity
\* "error" scores 0 and is graded F.
AllFailedErrors(violations) ==
    /\ Len(violations) > 0
    /\ \A i \in 1..Len(violations) :
          ~violations[i].passed /\ violations[i].severity = "error"
C10_AllErrorsFailedScoresZero ==
    (Graded /\ AllFailedErrors(http.body.violations)) =>
        /\ http.body.overall_score.num = 0
        /\ http.body.quality_grade = "F"
C10_Witness ==
    /\ Graded /\ AllFailedErrors(http.body.violations)
    /\ Len(http.body.violations) >= 2
    /\ http.body.quality_grade = "F"

\* The request served before and the one just answered are both graded
\* check-quality requests whose model answers carry the same violations list.
SameViolationsGraded ==
    /\ Done("check-quality")
    /\ previous.http.status = 200 /\ http.status = 200
    /\ DictGet(previous.svc.value, "violations", VNull)
           = DictGet(svc.value, "violations", VNull)

Recovered == [ok |-> TRUE, val |-> sent.object]

Contains(text, lexeme) == \E i \in 1..Len(text) : text[i] = lexeme

\* C12 as stated: whatever the prose before and behind a well-formed JSON
\* object, braces included, both recoveries return exactly that object.
C12_RecoveryRoundTrips ==
    Done("recovery") => parsed.extraction = Recovered /\ parsed.grading = Recovered

\* C12, amended: when the prose before the object holds no "{" and the prose
\* behind it holds no "}", both recoveries return exactly that object.
C12_RecoveryRoundTripsUnbracedProse ==
    (Done("recovery") /\ ~Contains(sent.pre, "{") /\ ~Contains(sent.post, "}")) =>
        parsed.extraction = Recovered /\ parsed.grading = Recovered

\* An object with a nested object has been recovered from between a prose
\* with "}" and a prose with "{".
C12_Witness ==
    /\ Done("recovery")
    /\ Contains(sent.pre, "}") /\ ~Contains(sent.pre, "{")
    /\ Contains(sent.post, "{") /\ ~Contains(sent.post, "}")
    /\ \E i \in 1..Len(sent.object.vals) : sent.object.vals[i].t = "obj"
    /\ parsed.extraction = Recovered /\ parsed.grading = Recovered

RECURSIVE Balanced(_, _)
\* The braces of the text nest properly, counted from the given depth.
Balanced(text, depth) ==
    IF text = <<>> THEN depth = 0
    ELSE IF Head(text) = "{" THEN Balanced(Tail(text), depth + 1)
    ELSE IF Head(text) = "}" THEN depth > 0 /\ Balanced(Tail(text), depth - 1)
    ELSE Balanced(Tail(text), depth)

\* The text has no brace, or braces that do not nest properly.
UnbalancedOrAbsent(text) ==
    \/ ~Contains(text, "{") /\ ~Contains(text, "}")
    \/ ~Balanced(text, 0)

\* C13: for every response text whose braces are unbalanced or absent the
\* extraction step recovers no object and returns its fallback, the error
\* entry for every requested field.
C13_UnbalancedYieldsFallback ==
    (/\ Done("GraniteLLMService.extract_fields")
     /\ llm.kind = "text"
     /\ UnbalancedOrAbsent(llm.text)) =>
        svc = Returned([i \in 1..Len(request.fields_to_extract) |->
                           ErrorField(request.fields_to_extract[i])])

\* The steps of a pipeline endpoint, in the order of its code.
PipelineOrder(name) ==
    IF name = "workflow-complete" THEN <<"parse", "extract", "generate", "grade">>
    ELSE <<"parse", "extract", "generate">>

\* The step log changes only by the next step of the order being started
\* after the step before it has returned, or by the next request.
StepStartsInOrder ==
    steps' # steps =>
        \/ steps' = <<>>
        \/ /\ endpoint' \in {"workflow-complete", "process-complete"}
           /\ Len(steps) < Len(PipelineOrder(endpoint'))
           /\ steps' = Append(steps, PipelineOrder(endpoint')[Len(steps) + 1])
           /\ Len(steps) = 1 => parser = "returned"
           /\ Len(steps) >= 2 => svc.state = "returned"

\* C14: within one workflow-complete request the steps run in the order parse,
\* extract, generate, grade, and within one process-complete request in the
\* order parse, extract, generate: a step starts only after the step before it
\* has returned, and no step is started twice or started again after a later one.
C14_StepsInOrder == [][StepStartsInOrder]_vars

\* A workflow-complete request has run all four steps.
C14_Witness ==
    /\ Done("workflow-complete")
    /\ steps = <<"parse", "extract", "generate", "grade">>
    /\ http.status = 200

\* A request of one of the two pipeline endpoints.
Pipeline == endpoint \in {"workflow-complete", "process-complete"}

\* The request has ended with a 5xx response whose detail carries the message.
EndsWith5xx(message) ==
    /\ pc = "done"
    /\ http.status >= 500 /\ http.status <= 599
    /\ Contains(http.detail, message)

\* C15: when the document parser or an LLM call throws during process-complete
\* or workflow-complete, the request ends with a 5xx response that carries the
\* underlying message, and the step that threw is the last step started and
\* its call the last LLM call of the request.
C15_ThrowEndsRequestWith5xx ==
    /\ (Pipeline /\ parser = "raised") =>
           EndsWith5xx("conversion failed") /\ steps = <<"parse">> /\ llmCalls = 0
    /\ (Pipeline /\ llm.kind = "raise") =>
           /\ EndsWith5xx("LLMError")
           /\ steps = SubSeq(PipelineOrder(endpoint), 1, llmCalls + 1)

\* The template call of a workflow-complete request has thrown.
C15_Witness ==
    /\ Done("workflow-complete")
    /\ llm.kind = "raise"
    /\ steps = <<"parse", "extract", "generate">>
    /\ llmCalls = 2
    /\ http.status = 500

\* The most LLM calls one request of an endpoint issues.
MostCalls(name) ==
    CASE name \in {"extract-fields", "generate-iso-template", "check-quality"} -> 1
      [] name = "process-complete" -> 2
      [] name = "workflow-complete" -> 3
      [] OTHER -> 0

\* C16: no LLM call is retried: a request of extract-fields, of
\* generate-iso-template and of check-quality issues at most one LLM call, one
\* of process-complete at most two and one of workflow-complete at most three,
\* whatever the model answers.
C16_NoCallIsRetried ==
    endpoint \in {"extract-fields", "generate-iso-template", "check-quality",
                  "process-complete", "workflow-complete"} =>
        llmCalls <= MostCalls(endpoint)

\* A workflow-complete request has been answered with a degraded report after
\* a grading answer that could not be parsed.
C16_Witness ==
    /\ Done("workflow-complete")
    /\ llmCalls = 3
    /\ llm.kind = "text" /\ ~recover_grading(llm.text).ok
    /\ http.status = 200
    /\ http.body.violations = <<>>

C18_NullFieldsAreAccepted ==
    (/\ Done("check-quality")
     /\ request.extracted_fields \in {VNull, Absent}
     /\ strip(request.generated_template) # <<>>) =>
        /\ http.status # 422
        /\ llmCalls = 1
        /\ (llm.kind = "text" /\ llm.text \in {Render(v) : v \in ShapedGradings}) =>
               http.status = 200 /\ http.body.success = TRUE

\* C19: a successful process-complete response contains, next to
\* generated_template and document_type, the extracted_fields mapping the
\* extract step produced.
C19_ProcessCompleteCarriesFields ==
    (Done("process-complete") /\ http.status = 200) =>
        /\ {"generated_template", "document_type", "extracted_fields"}
               \subseteq DOMAIN http.body
        /\ http.body.extracted_fields = work.fields_dict

\* C20: whenever extract_fields returns, on the parsed path and on the
\* fallback path, its result has one entry per requested field name in the
\* requested order: as many entries as names, and entry i named as name i.
C20_OneEntryPerRequestedField ==
    (Done("GraniteLLMService.extract_fields") /\ svc.state = "returned") =>
        /\ Len(svc.value) = Len(request.fields_to_extract)
        /\ \A i \in 1..Len(svc.value) :
              svc.value[i].field_name = request.fields_to_extract[i]

\* Two fields were requested in the reverse of the order the answer holds
\* them in, and the answer was parsed.
C20_Witness ==
    /\ Done("GraniteLLMService.extract_fields")
    /\ svc.state = "returned"
    /\ request.fields_to_extract = <<"department", "document_title">>
    /\ llm.kind = "text" /\ recover_extraction(llm.text).ok
    /\ svc.value[1].confidence = VNum(70)
    /\ svc.value[2].confidence = VNum(95)

\* C21: in every successful check-quality or workflow-complete response the
\* overall score lies in the range 0..100 and the grade is one of A, B, C, D, F.
C21_ScoreAndGradeInRange ==
    Graded =>
        /\ http.body.overall_score.den > 0
        /\ http.body.overall_score.num >= 0
        /\ http.body.overall_score.num <= 100 * http.body.overall_score.den
        /\ http.body.quality_grade \in {"A", "B", "C", "D", "F"}

\* A workflow-complete report over passed and failed rules, one of them of a
\* severity outside the catalog.
C21_Witness ==
    /\ Done("workflow-complete")
    /\ http.status = 200
    /\ http.body.rules_passed >= 1 /\ http.body.rules_failed >= 1
    /\ \E i \in 1..Len(http.body.violations) : http.body.violations[i].severity = "critical"

\* C22: every entry the extraction step returns has a confidence within
\* [0, 1], whatever confidence the model reported for the field.
C22_ConfidenceInUnitInterval ==
    (Done("GraniteLLMService.extract_fields") /\ svc.state = "returned") =>
        \A i \in 1..Len(svc.value) :
            /\ svc.value[i].confidence.t = "num"
            /\ svc.value[i].confidence.n >= 0
            /\ svc.value[i].confidence.n <= 100

\* The object the grading answer parses to, when it parses to one.
GradingObject == json_loads(Span(llm.text)).val

\* The grading call got a JSON object without "violations" or without
\* "recommendations".
LacksRequiredKey ==
    /\ Done("GraniteLLMService.check_quality")
    /\ llm.kind = "text" /\ HasSpan(llm.text) /\ IsJson(Span(llm.text))
    /\ GradingObject.t = "obj"
    /\ ~DictHas(GradingObject, "violations") \/ ~DictHas(GradingObject, "recommendations")

\* C23: when the grading answer parses to a JSON object that lacks
\* "violations" and/or "recommendations", check_quality does not raise and
\* returns that object with each missing key added as an empty list and every
\* key that was present unchanged.
C23_MissingKeysBecomeEmptyLists ==
    LacksRequiredKey =>
        /\ svc.state = "returned"
        /\ svc.value.t = "obj"
        /\ \A key \in {"violations", "recommendations"} :
              ~DictHas(GradingObject, key) =>
                  DictHas(svc.value, key) /\ DictGet(svc.value, key, VNull) = VList(<<>>)
        /\ \A i \in 1..Len(GradingObject.keys) :
              /\ svc.value.keys[i] = GradingObject.keys[i]
              /\ svc.value.vals[i] = GradingObject.vals[i]
        /\ Len(svc.value.keys) = Len(GradingObject.keys)
              + Cardinality({key \in {"violations", "recommendations"} :
                                ~DictHas(GradingObject, key)})

\* An answer with a violations list and a score of its own but no
\* recommendations has been completed.
C23_Witness ==
    /\ LacksRequiredKey
    /\ DictGet(GradingObject, "violations", VNull) = VList(<<GoodEntry>>)
    /\ DictHas(GradingObject, "overall_score")
    /\ svc.state = "returned"
    /\ DictGet(svc.value, "recommendations", VNull) = VList(<<>>)

\* The request is one the handler rejects for an empty input.
RejectedForEmptyInput ==
    \/ Done("extract-fields") /\ strip(request.document_text) = <<>>
    \/ Done("generate-iso-template") /\ request.extracted_fields = EmptyDict
    \/ /\ Done("check-quality") /\ strip(request.generated_template) = <<>>
       /\ request.extracted_fields # VNull

\* C24: when extract-fields, generate-iso-template or check-quality rejects a
\* request for an empty document text, an empty field map or an empty
\* template, no LLM call has been made for the request.
C24_NoCallBeforeRejection ==
    RejectedForEmptyInput =>
        /\ http.status >= 400
        /\ llmCalls = 0
        /\ llm = LLMIdle

\* extract-fields has rejected a text of blanks.
C24_Witness ==
    /\ Done("extract-fields")
    /\ request.document_text = <<" ", " ">>
    /\ http.status >= 400
    /\ llmCalls = 0

\* Two constructions of the same prompt with identical inputs.
SameConstruction ==
    /\ prompt.kind # "none"
    /\ earlier.kind = prompt.kind
    /\ earlier.inputs = prompt.inputs

\* C25: two constructions of the extraction, the template or the grading
\* prompt with identical inputs give the identical prompt text, whatever the
\* clock shows at each of them.
C25_PromptsDeterministic == SameConstruction => earlier.text = prompt.text

\* C26: whatever requests have been served, the rule catalog is the one
\* loaded at process start (15 rules, same order, ids, names, descriptions
\* and severities), the LLM client's configuration is the one it was
\* constructed with, and every grading call is given the same rules text.
C26_CatalogAndClientNeverWritten ==
    /\ catalog = QUALITY_RULES
    /\ Len(catalog) = 15
    /\ llm_service = GraniteLLMService_init
    /\ rules_text \in {<<>>, format_rules_for_prompt(QUALITY_RULES)}
    /\ (Done("check-quality") /\ llmCalls = 1) \/ (Done("workflow-complete") /\ llmCalls = 3)
          => rules_text = format_rules_for_prompt(QUALITY_RULES)

\* A workflow request has been graded against the catalog.
C26_Witness ==
    /\ Done("workflow-complete") /\ http.status = 200
    /\ catalog = QUALITY_RULES
    /\ rules_text = format_rules_for_prompt(catalog)
    /\ Len(rules_text) > 15

\* A grading endpoint has made its grading call and has extracted fields it
\* can put into a response.
GradingAnswered ==
    \/ Done("check-quality") /\ llmCalls = 1
    \/ Done("workflow-complete") /\ llmCalls = 3 /\ IsDictOfStr(work.fields_dict)

C28_EachCallKeepsItsOwnFile ==
    SAVE_LOCAL_COPIES =>
        /\ \A i, j \in 1..Len(written) : i # j => written[i] # written[j]
        /\ \A i \in 1..Len(written) : archive[written[i]] = i

\* C29: once a parse-document, process-complete or workflow-complete request
\* has been answered, on whatever path, the temporary file made for its
\* upload does not exist.
C29_TempFileGoneAfterRequest ==
    (pc = "done" /\ endpoint \in {"parse-document", "process-complete", "workflow-complete"})
        => temp_file # "exists"

\* The items of the violations list the grading step returned.
ReturnedViolations ==
    LET violations == DictGet(svc.value, "violations", VList(<<>>)) IN
    IF violations.t = "list" THEN violations.items ELSE <<>>

\* C30: in every successful check-quality or workflow-complete response,
\* rules_passed + rules_failed = total_rules_checked = the number of
\* violations in the response, rules_passed counts the violations with
\* passed = true, and the violations are those of the model's answer in the
\* model's order.
C30_CountsAndOrderFollowViolations ==
    Graded =>
        LET violations == http.body.violations IN
        /\ http.body.rules_passed + http.body.rules_failed = http.body.total_rules_checked
        /\ http.body.total_rules_checked = Len(violations)
        /\ http.body.rules_passed
              = Cardinality({i \in 1..Len(violations) : violations[i].passed})
        /\ Len(violations) = Len(ReturnedViolations)
        /\ \A i \in 1..Len(violations) :
              /\ DictGet(ReturnedViolations[i], "rule_id", VNull) = VStr(violations[i].rule_id)
              /\ DictGet(ReturnedViolations[i], "severity", VNull)
                    = VStr(violations[i].severity)
              /\ AsBool(DictGet(ReturnedViolations[i], "passed", VNull)) = violations[i].passed

\* A report over three rules in the catalog's order, the second one failed.
C30_Witness ==
    /\ Graded
    /\ Len(http.body.violations) = 3
    /\ [i \in 1..3 |-> http.body.violations[i].rule_id] = <<"QR001", "QR002", "QR003">>
    /\ [i \in 1..3 |-> http.body.violations[i].passed] = <<TRUE, FALSE, TRUE>>
    /\ http.body.rules_passed = 2 /\ http.body.rules_failed = 1

====
